---- MODULE Spec2Model ----
(***************************************************************************)
(* Budget-aware search router (BudgetRouter): quota accounting, circuit    *)
(* breaker and fail-over of route(), over a usage storage.                 *)
(*                                                                         *)
(* A route() call is a cooperative task: it runs without interruption      *)
(* between two awaits, so every action below is one such stretch of code,  *)
(* from the completion of one await to the start of the next.              *)
(***************************************************************************)
EXTENDS Integers, Sequences, FiniteSets, TLC

\* ------------------------------------------------------------------ bounds
\* route() calls started in one behaviour
MaxRoutes == 4
\* wall-clock steps of TickMs in one behaviour
MaxTicks == 2
\* providers with a valid API key (Spec)
MaxRegistered == 2
\* route() tasks that exist side by side (Spec runs them one at a time)
MaxInFlight == 2
\* storage operations called directly on the storage object
MaxOps == 3
\* recordExplicitUsage() calls made in one behaviour
MaxExplicit == 2

\* --------------------------------------------------------------- constants
Providers == {"brave", "tavily", "exa", "jina_search", "serper", "youcom"}

defaultStack == <<"brave", "tavily", "exa", "jina_search", "serper", "youcom">>

googleStack == <<"serper", "brave", "tavily", "exa", "jina_search", "youcom">>

\* CIRCUIT_BREAKER.maxFailures
maxFailures == 3

\* CIRCUIT_BREAKER.cooldownMs
cooldownMs == 5 * 60 * 1000

\* PROVIDER_LIMITS of config/env: limit and reset type per provider. The
\* limits are scaled down (the configured ones are in the thousands).
PROVIDER_LIMITS ==
  [brave       |-> [limit |-> 2, type |-> "monthly"],
   tavily      |-> [limit |-> 1, type |-> "monthly"],
   exa         |-> [limit |-> 1, type |-> "lifetime"],
   jina_search |-> [limit |-> 1, type |-> "lifetime"],
   serper      |-> [limit |-> 1, type |-> "lifetime"],
   youcom      |-> [limit |-> 1, type |-> "lifetime"]]

\* The wall clock advances in steps of half a cooldown, so that a clock
\* reading can fall exactly on cooldownUntil.
TickMs == cooldownMs \div 2

\* The UTC month changes at this clock reading.
MonthRolloverMs == TickMs

\* new Date().toISOString().slice(0, 7)
MonthOf(t) == IF t < MonthRolloverMs THEN "2026-02" ELSE "2026-03"

Calls == 1..MaxInFlight

VARIABLES
  registered,    \* this.providers: the providers with a valid API key
  usage,         \* the storage document: key -> count (absent key = 0)
  circuitState,  \* this.circuitState: provider -> CircuitState (partial map)
  now,           \* Date.now()
  calls,         \* the route() tasks: position, arguments, locals, result
  nRoutes,       \* route() calls started so far
  store,         \* the storage object: backend kind, connection state
  ops,           \* storage operations called directly on the storage object
  statsCall,     \* the getUsageStats() task: position and report
  explicitCall   \* the recordExplicitUsage() task: position, key, calls made

vars == <<registered, usage, circuitState, now, calls, nRoutes, store, ops,
          statsCall, explicitCall>>

\* ------------------------------------------------------------ usage storage
\* get that takes a missing key for 1
StorageGetDefaultOne(u, key) == IF key \in DOMAIN u THEN u[key] ELSE 1

\* UsageStorage.get: 0 for a missing key
StorageGet(u, key) == IF key \in DOMAIN u THEN u[key] ELSE 0

\* increment that counts a call twice
StorageIncrementTwice(u, key) ==
  [k \in DOMAIN u \cup {key} |-> IF k = key THEN StorageGet(u, key) + 2 ELSE u[k]]

\* UsageStorage.increment: data[key] = (data[key] ?? 0) + 1
StorageIncrement(u, key) ==
  [k \in DOMAIN u \cup {key} |-> IF k = key THEN StorageGet(u, key) + 1 ELSE u[k]]

\* createStorage(): RedisStorage if REDIS_URL is set, otherwise FileStorage.
\* A RedisStorage starts with connected = false, connectionPromise = null;
\* connects counts the client.connect() calls made. corrupt tells that the
\* file of a FileStorage holds no valid JSON.
createStorage(redisUrl) ==
  [backend           |-> IF redisUrl THEN "redis" ELSE "file",
   connected         |-> FALSE,
   connectionPromise |-> "null",
   connects          |-> 0,
   corrupt           |-> FALSE]

OpIds == 1..MaxOps

\* A storage operation not called yet. op is get, increment or getAll, key
\* its argument, pc its position, doc the document it loaded (file) or the
\* result it builds (getAll), todo the keys getAll still has to read, ret
\* the number it returned; waited tells that it awaited a connection
\* attempt in progress.
IdleOp ==
  [op |-> "none", key |-> <<"none", "none">>, pc |-> "idle",
   doc |-> [k \in {} |-> 0], todo |-> {}, ret |-> 0, waited |-> FALSE]

\* The getUsageStats() task before it is called; report is the BudgetStats
\* it returned.
IdleStats == [pc |-> "idle", report |-> <<>>]

\* the provider names recordExplicitUsage is called with: a monthly, a
\* lifetime and a paid-only provider, and one without limits entry
ExplicitInputs == {"brave", "exa", "perplexity", "kagi"}

\* The recordExplicitUsage() task before it is called; provider and
\* isPaidProvider are its arguments, key the key of the pending increment,
\* n the number of calls made so far, count the number of calls that
\* returned, per provider name.
IdleExplicit ==
  [pc |-> "idle", provider |-> "none", isPaidProvider |-> FALSE,
   key |-> <<"none", "none">>, n |-> 0,
   count |-> [p \in ExplicitInputs |-> 0]]

\* ------------------------------------------------------------- quota policy
\* getStorageKey with one key for all months
getStorageKeyNoMonth(p, t) ==
  IF PROVIDER_LIMITS[p].type = "monthly" THEN <<p, "monthly">>
  ELSE IF PROVIDER_LIMITS[p].type = "paid" THEN <<p, "paid">>
  ELSE <<p, "lifetime">>

getStorageKey(p, t) ==
  IF PROVIDER_LIMITS[p].type = "monthly" THEN <<p, MonthOf(t)>>
  ELSE IF PROVIDER_LIMITS[p].type = "paid" THEN <<p, "paid">>
  ELSE <<p, "lifetime">>

\* `${provider}:paid`
PaidKey(p) == <<p, "paid">>

\* hasQuota with the comparison off by one
hasQuotaInclusive(p, used) == used <= PROVIDER_LIMITS[p].limit

\* hasQuota, given the value storage.get returned
hasQuota(p, used) == used < PROVIDER_LIMITS[p].limit

\* ---------------------------------------------------------- circuit breaker
\* isCircuitOpen: the value returned
isCircuitOpen(circ, p, t) == p \in DOMAIN circ /\ circ[p].cooldownUntil > t

\* isCircuitOpen that keeps a stale record
isCircuitOpenEffectKeep(circ, p, t) == circ

\* isCircuitOpen: the map it leaves (a stale record is deleted)
isCircuitOpenEffect(circ, p, t) ==
  IF /\ p \in DOMAIN circ
     /\ ~(circ[p].cooldownUntil > t)
     /\ circ[p].failures >= maxFailures
  THEN [q \in DOMAIN circ \ {p} |-> circ[q]]
  ELSE circ

\* a recordFailure that sets cooldownUntil when the circuit opens and leaves
\* it alone afterwards
recordFailureOnce(circ, p, t) ==
  LET old == IF p \in DOMAIN circ THEN circ[p]
             ELSE [failures |-> 0, lastFailure |-> 0, cooldownUntil |-> 0]
      n   == old.failures + 1
      new == [failures      |-> n,
              lastFailure   |-> t,
              cooldownUntil |-> IF n = maxFailures THEN t + cooldownMs
                                ELSE old.cooldownUntil]
  IN [q \in DOMAIN circ \cup {p} |-> IF q = p THEN new ELSE circ[q]]

\* recordFailure that enters cooldown only past the threshold
recordFailureLate(circ, p, t) ==
  LET old == IF p \in DOMAIN circ THEN circ[p]
             ELSE [failures |-> 0, lastFailure |-> 0, cooldownUntil |-> 0]
      n   == old.failures + 1
      new == [failures      |-> n,
              lastFailure   |-> t,
              cooldownUntil |-> IF n > maxFailures THEN t + cooldownMs
                                ELSE old.cooldownUntil]
  IN [q \in DOMAIN circ \cup {p} |-> IF q = p THEN new ELSE circ[q]]

recordFailure(circ, p, t) ==
  LET old == IF p \in DOMAIN circ THEN circ[p]
             ELSE [failures |-> 0, lastFailure |-> 0, cooldownUntil |-> 0]
      n   == old.failures + 1
      new == [failures      |-> n,
              lastFailure   |-> t,
              cooldownUntil |-> IF n >= maxFailures THEN t + cooldownMs
                                ELSE old.cooldownUntil]
  IN [q \in DOMAIN circ \cup {p} |-> IF q = p THEN new ELSE circ[q]]

recordSuccess(circ, p) == [q \in DOMAIN circ \ {p} |-> circ[q]]

\* -------------------------------------------------------------------- route
Stack(preferGoogle) == IF preferGoogle THEN googleStack ELSE defaultStack

\* a paid fallback that does not depend on preferGoogle
paidProviderFixed(preferGoogle) == "jina_search"

\* the designated paid fallback
paidProvider(preferGoogle) == IF preferGoogle THEN "serper" ELSE "jina_search"

NoResult == [kind |-> "none", provider |-> "none", usedPaidTier |-> FALSE]

Ok(p, paid) == [kind |-> "ok", provider |-> p, usedPaidTier |-> paid]

\* a rejected route(): "config" (Jina Search API key required), "exhausted"
\* (No search providers available), "provider" (p's own error) or "storage"
\* (the error of a storage call)
Err(kind, p) == [kind |-> kind, provider |-> p, usedPaidTier |-> FALSE]

\* a map with no entry
EmptyMap == [k \in {} |-> 0]

NoKey == <<"none", "none">>

\* A route() task. pc is its position; idx, key are the loop's locals (the
\* stack index and the key computed before the pending storage call).
\* invoked lists the provider.search calls made so far by this call, with the
\* site of each and its outcome; startUsage and startCircuit are the storage
\* document and the circuit map as they were when the call started, at clock
\* reading startedAt; storageFailed tells that a storage call of this call
\* rejected, doc is the document loaded by a pending FileStorage.increment;
\* checked is the key hasQuota read for the invocation of the loop that is
\* under way.
IdleCall ==
  [pc |-> "idle", preferGoogle |-> FALSE, includeContent |-> FALSE,
   idx |-> 0, key |-> NoKey, checked |-> NoKey, invoked |-> <<>>,
   result |-> NoResult,
   startUsage |-> EmptyMap, startCircuit |-> EmptyMap, startedAt |-> 0,
   storageFailed |-> FALSE, doc |-> EmptyMap]

Invocation(p, site) == [provider |-> p, site |-> site, outcome |-> "pending"]

\* the invocations so far, the pending one settled
Settle(invoked, outcome) ==
  [invoked EXCEPT ![Len(invoked)].outcome = outcome]

\* The providers of stack[i..j] the loop looks up and finds registered: the
\* ones isCircuitOpen is called for.
Checked(stack, i, j) ==
  {stack[k] : k \in {k \in i..j : k <= Len(stack) /\ stack[k] \in registered}}

\* the loop without its circuit check
NextCandidateAnyCircuit(stack, i, circ) ==
  LET ok == {k \in i..Len(stack) : stack[k] \in registered}
  IN IF ok = {} THEN Len(stack) + 1
     ELSE CHOOSE k \in ok : \A m \in ok : k <= m

\* The loop from index i on, up to its next await: the index of the first
\* provider that is registered and whose circuit is not open, Len(stack) + 1
\* when there is none.
NextCandidate(stack, i, circ) ==
  LET ok == {k \in i..Len(stack) :
               stack[k] \in registered /\ ~isCircuitOpen(circ, stack[k], now)}
  IN IF ok = {} THEN Len(stack) + 1
     ELSE CHOOSE k \in ok : \A m \in ok : k <= m

\* The circuit map after isCircuitOpen ran for every provider of ps.
PurgeStale(circ, ps) ==
  LET stale == {p \in ps : isCircuitOpenEffect(circ, p, now) # circ}
  IN [q \in DOMAIN circ \ stale |-> circ[q]]

\* route() from the top of the loop at index i, with the call's record cur and
\* the circuit map circ, up to the next await: either a candidate's quota
\* read is started, or the stack is exhausted and the paid fallback is
\* invoked, or the call is rejected for want of any provider.
Advance(c, cur, i, circ) ==
  LET stack == Stack(cur.preferGoogle)
      j     == NextCandidate(stack, i, circ)
      paid  == paidProvider(cur.preferGoogle)
  IN /\ circuitState' = PurgeStale(circ, Checked(stack, i, j))
     /\ calls' = [calls EXCEPT ![c] =
          IF j <= Len(stack)
          THEN [cur EXCEPT !.pc = "quota", !.idx = j, !.checked = NoKey,
                           !.key = getStorageKey(stack[j], now)]
          ELSE IF paid \in registered
          THEN [cur EXCEPT !.pc = "paid_search", !.idx = j, !.key = NoKey,
                           !.checked = NoKey,
                           !.invoked = Append(@, Invocation(paid, "paid"))]
          ELSE [cur EXCEPT !.pc = "done", !.idx = j, !.key = NoKey,
                           !.checked = NoKey,
                           !.result = Err("exhausted", "none")]]

\* route(options) from its first line to its first await: the stack is
\* chosen; with content set the includeContent special case is served,
\* otherwise the loop starts. (route() passes options.includeContent for
\* content.)
StartCall(c, preferGoogle, includeContent, content) ==
  /\ calls[c].pc = "idle"
  /\ nRoutes < MaxRoutes
  /\ nRoutes' = nRoutes + 1
  /\ LET cur == [IdleCall EXCEPT !.preferGoogle = preferGoogle,
                                 !.includeContent = includeContent,
                                 !.startUsage = usage,
                                 !.startCircuit = circuitState,
                                 !.startedAt = now]
     IN IF content
        THEN /\ calls' = [calls EXCEPT ![c] =
                  IF "jina_search" \in registered
                  THEN [cur EXCEPT !.pc = "content_search",
                          !.invoked = <<Invocation("jina_search", "content")>>]
                  ELSE [cur EXCEPT !.pc = "done",
                                   !.result = Err("config", "none")]]
             /\ UNCHANGED circuitState
        ELSE Advance(c, cur, 1, circuitState)
  /\ UNCHANGED <<registered, usage, now, store, ops, statsCall, explicitCall>>

\* route() that serves the includeContent case only on the default stack
RouteContentOnDefaultStack(c, preferGoogle, includeContent) ==
  StartCall(c, preferGoogle, includeContent, includeContent /\ ~preferGoogle)

\* route(options) is called.
Route(c, preferGoogle, includeContent) ==
  StartCall(c, preferGoogle, includeContent, includeContent)

\* a quota check that passes over a provider another task is using
HasQuotaReturnsExclusive(c) ==
  /\ calls[c].pc = "quota"
  /\ LET cur  == calls[c]
         p    == Stack(cur.preferGoogle)[cur.idx]
         busy == \E d \in Calls \ {c} :
                   /\ calls[d].pc \in {"search", "record"}
                   /\ Stack(calls[d].preferGoogle)[calls[d].idx] = p
     IN IF hasQuota(p, StorageGet(usage, cur.key)) /\ ~busy
        THEN /\ calls' = [calls EXCEPT ![c] =
                  [cur EXCEPT !.pc = "search", !.key = NoKey,
                              !.checked = cur.key,
                              !.invoked = Append(@, Invocation(p, "stack"))]]
             /\ UNCHANGED circuitState
        ELSE Advance(c, cur, cur.idx + 1, circuitState)
  /\ UNCHANGED <<registered, usage, now, nRoutes, store, ops, statsCall, explicitCall>>

\* a loop that waits at a provider without quota instead of going on
HasQuotaReturnsWaiting(c) ==
  /\ calls[c].pc = "quota"
  /\ LET cur == calls[c]
         p   == Stack(cur.preferGoogle)[cur.idx]
     IN IF hasQuota(p, StorageGet(usage, cur.key))
        THEN /\ calls' = [calls EXCEPT ![c] =
                  [cur EXCEPT !.pc = "search", !.key = NoKey,
                              !.checked = cur.key,
                              !.invoked = Append(@, Invocation(p, "stack"))]]
             /\ UNCHANGED circuitState
        ELSE UNCHANGED <<calls, circuitState>>
  /\ UNCHANGED <<registered, usage, now, nRoutes, store, ops, statsCall, explicitCall>>

\* await this.hasQuota(providerName) completes: with quota the provider is
\* invoked, without it the loop goes on.
HasQuotaReturns(c) ==
  /\ calls[c].pc = "quota"
  /\ LET cur == calls[c]
         p   == Stack(cur.preferGoogle)[cur.idx]
     IN IF hasQuota(p, StorageGet(usage, cur.key))
        THEN /\ calls' = [calls EXCEPT ![c] =
                  [cur EXCEPT !.pc = "search", !.key = NoKey,
                              !.checked = cur.key,
                              !.invoked = Append(@, Invocation(p, "stack"))]]
             /\ UNCHANGED circuitState
        ELSE Advance(c, cur, cur.idx + 1, circuitState)
  /\ UNCHANGED <<registered, usage, now, nRoutes, store, ops, statsCall, explicitCall>>

\* a recordUsage that counts the loop's success under the overage key
SearchSucceedsPaidKey(c) ==
  /\ calls[c].pc = "search"
  /\ LET cur == calls[c]
         p   == Stack(cur.preferGoogle)[cur.idx]
     IN calls' = [calls EXCEPT ![c] =
          [cur EXCEPT !.pc = "record", !.key = PaidKey(p),
                      !.invoked = Settle(@, "ok")]]
  /\ UNCHANGED <<registered, usage, circuitState, now, nRoutes, store, ops, statsCall, explicitCall>>

\* provider.search of the loop resolves: recordUsage starts, its key taken
\* from the clock now.
SearchSucceeds(c) ==
  /\ calls[c].pc = "search"
  /\ LET cur == calls[c]
         p   == Stack(cur.preferGoogle)[cur.idx]
     IN calls' = [calls EXCEPT ![c] =
          [cur EXCEPT !.pc = "record", !.key = getStorageKey(p, now),
                      !.invoked = Settle(@, "ok")]]
  /\ UNCHANGED <<registered, usage, circuitState, now, nRoutes, store, ops, statsCall, explicitCall>>

\* provider.search of the loop rejects and nothing catches it
SearchFailsUncaught(c) ==
  /\ calls[c].pc = "search"
  /\ calls' = [calls EXCEPT ![c] =
       [@ EXCEPT !.pc = "done", !.invoked = Settle(@, "fail"),
                 !.checked = NoKey,
                 !.result = Err("provider",
                                Stack(calls[c].preferGoogle)[calls[c].idx])]]
  /\ circuitState' =
       recordFailure(circuitState, Stack(calls[c].preferGoogle)[calls[c].idx], now)
  /\ UNCHANGED <<registered, usage, now, nRoutes, store, ops, statsCall, explicitCall>>

\* a catch block that tries the same provider again
SearchFailsRetrying(c) ==
  /\ calls[c].pc = "search"
  /\ LET cur == calls[c]
         p   == Stack(cur.preferGoogle)[cur.idx]
     IN Advance(c, [cur EXCEPT !.invoked = Settle(@, "fail")],
                cur.idx, recordFailure(circuitState, p, now))
  /\ UNCHANGED <<registered, usage, now, nRoutes, store, ops, statsCall, explicitCall>>

\* provider.search of the loop rejects: the catch block records the failure
\* and the loop goes on.
SearchFails(c) ==
  /\ calls[c].pc = "search"
  /\ LET cur == calls[c]
         p   == Stack(cur.preferGoogle)[cur.idx]
     IN Advance(c, [cur EXCEPT !.invoked = Settle(@, "fail")],
                cur.idx + 1, recordFailure(circuitState, p, now))
  /\ UNCHANGED <<registered, usage, now, nRoutes, store, ops, statsCall, explicitCall>>

\* recordUsage(providerName, false) of the loop completes: recordSuccess,
\* return.
UsageRecorded(c) ==
  /\ calls[c].pc = "record"
  /\ LET cur == calls[c]
         p   == Stack(cur.preferGoogle)[cur.idx]
     IN /\ usage' = StorageIncrement(usage, cur.key)
        /\ circuitState' = recordSuccess(circuitState, p)
        /\ calls' = [calls EXCEPT ![c] =
             [cur EXCEPT !.pc = "done", !.key = NoKey, !.checked = NoKey,
                         !.result = Ok(p, FALSE)]]
  /\ UNCHANGED <<registered, now, nRoutes, store, ops, statsCall, explicitCall>>

\* jinaProvider.search of the includeContent case resolves: recordUsage
\* starts.
ContentSucceeds(c) ==
  /\ calls[c].pc = "content_search"
  /\ calls' = [calls EXCEPT ![c] =
       [@ EXCEPT !.pc = "content_record",
                 !.key = getStorageKey("jina_search", now),
                 !.invoked = Settle(@, "ok")]]
  /\ UNCHANGED <<registered, usage, circuitState, now, nRoutes, store, ops, statsCall, explicitCall>>

\* jinaProvider.search of the includeContent case rejects: nothing catches
\* it, route() rejects with the provider's error.
ContentFails(c) ==
  /\ calls[c].pc = "content_search"
  /\ calls' = [calls EXCEPT ![c] =
       [@ EXCEPT !.pc = "done", !.invoked = Settle(@, "fail"),
                 !.result = Err("provider", "jina_search")]]
  /\ UNCHANGED <<registered, usage, circuitState, now, nRoutes, store, ops, statsCall, explicitCall>>

\* recordUsage('jina_search', false) of the includeContent case completes:
\* return.
ContentRecorded(c) ==
  /\ calls[c].pc = "content_record"
  /\ usage' = StorageIncrement(usage, calls[c].key)
  /\ calls' = [calls EXCEPT ![c] =
       [@ EXCEPT !.pc = "done", !.key = NoKey,
                 !.result = Ok("jina_search", FALSE)]]
  /\ UNCHANGED <<registered, circuitState, now, nRoutes, store, ops, statsCall, explicitCall>>

\* provider.search of the paid fallback resolves: recordUsage(paidProvider,
\* true) starts with the increment of the provider's own key.
PaidSucceeds(c) ==
  /\ calls[c].pc = "paid_search"
  /\ calls' = [calls EXCEPT ![c] =
       [@ EXCEPT !.pc = "paid_record",
                 !.key = getStorageKey(paidProvider(calls[c].preferGoogle), now),
                 !.invoked = Settle(@, "ok")]]
  /\ UNCHANGED <<registered, usage, circuitState, now, nRoutes, store, ops, statsCall, explicitCall>>

\* a rejected paid fallback that is counted as usage all the same
PaidFailsCounted(c) ==
  /\ calls[c].pc = "paid_search"
  /\ usage' = StorageIncrement(
                usage, getStorageKey(paidProvider(calls[c].preferGoogle), now))
  /\ calls' = [calls EXCEPT ![c] =
       [@ EXCEPT !.pc = "done", !.invoked = Settle(@, "fail"),
                 !.result = Err("provider", paidProvider(calls[c].preferGoogle))]]
  /\ UNCHANGED <<registered, circuitState, now, nRoutes, store, ops, statsCall, explicitCall>>

\* provider.search of the paid fallback rejects: nothing catches it, route()
\* rejects with the provider's error.
PaidFails(c) ==
  /\ calls[c].pc = "paid_search"
  /\ calls' = [calls EXCEPT ![c] =
       [@ EXCEPT !.pc = "done", !.invoked = Settle(@, "fail"),
                 !.result = Err("provider", paidProvider(calls[c].preferGoogle))]]
  /\ UNCHANGED <<registered, usage, circuitState, now, nRoutes, store, ops, statsCall, explicitCall>>

\* recordUsage(paidProvider, true): the first increment completes, the
\* increment of `${provider}:paid` starts.
PaidRecorded(c) ==
  /\ calls[c].pc = "paid_record"
  /\ usage' = StorageIncrement(usage, calls[c].key)
  /\ calls' = [calls EXCEPT ![c] =
       [@ EXCEPT !.pc = "paid_record2",
                 !.key = PaidKey(paidProvider(calls[c].preferGoogle))]]
  /\ UNCHANGED <<registered, circuitState, now, nRoutes, store, ops, statsCall, explicitCall>>

\* recordUsage(paidProvider, true): the second increment completes, return.
PaidOverageRecorded(c) ==
  /\ calls[c].pc = "paid_record2"
  /\ usage' = StorageIncrement(usage, calls[c].key)
  /\ calls' = [calls EXCEPT ![c] =
       [@ EXCEPT !.pc = "done", !.key = NoKey,
                 !.result = Ok(paidProvider(calls[c].preferGoogle), TRUE)]]
  /\ UNCHANGED <<registered, circuitState, now, nRoutes, store, ops, statsCall, explicitCall>>

\* The caller has received the result or the error of route().
Return(c) ==
  /\ calls[c].pc = "done"
  /\ calls' = [calls EXCEPT ![c] = IdleCall]
  /\ UNCHANGED <<registered, usage, circuitState, now, nRoutes, store, ops, statsCall, explicitCall>>

Init ==
  /\ registered \in {ps \in SUBSET Providers : Cardinality(ps) <= MaxRegistered}
  /\ usage = EmptyMap
  /\ circuitState = EmptyMap
  /\ now = 0
  /\ calls = [c \in Calls |-> IdleCall]
  /\ nRoutes = 0
  /\ store = createStorage(FALSE)
  /\ ops = [o \in OpIds |-> IdleOp]
  /\ statsCall = IdleStats
  /\ explicitCall = IdleExplicit

\* The wall clock advances (a return is handed over at once).
Tick ==
  /\ now < MaxTicks * TickMs
  /\ \A c \in Calls : calls[c].pc # "done"
  /\ now' = now + TickMs
  /\ UNCHANGED <<registered, usage, circuitState, calls, nRoutes, store, ops, statsCall, explicitCall>>

\* The steps of route() task c.
RouteStep(c) ==
  \/ \E preferGoogle \in BOOLEAN, includeContent \in BOOLEAN :
       Route(c, preferGoogle, includeContent)
  \/ HasQuotaReturns(c)
  \/ SearchSucceeds(c)
  \/ SearchFails(c)
  \/ UsageRecorded(c)
  \/ ContentSucceeds(c)
  \/ ContentFails(c)
  \/ ContentRecorded(c)
  \/ PaidSucceeds(c)
  \/ PaidFails(c)
  \/ PaidRecorded(c)
  \/ PaidOverageRecorded(c)
  \/ Return(c)

\* route() calls made one after the other: each starts after the previous
\* one returned.
Next == RouteStep(1) \/ Tick

Spec == Init /\ [][Next]_vars

\* ---------------------------------------------------------------------------
\* Providers that always succeed: any set of providers may be registered, and
\* no provider.search rejects.
InitReliable ==
  /\ registered \in SUBSET Providers
  /\ usage = EmptyMap
  /\ circuitState = EmptyMap
  /\ now = 0
  /\ calls = [c \in Calls |-> IdleCall]
  /\ nRoutes = 0
  /\ store = createStorage(FALSE)
  /\ ops = [o \in OpIds |-> IdleOp]
  /\ statsCall = IdleStats
  /\ explicitCall = IdleExplicit

NextReliable ==
  \/ \E preferGoogle \in BOOLEAN, includeContent \in BOOLEAN :
       Route(1, preferGoogle, includeContent)
  \/ HasQuotaReturns(1)
  \/ SearchSucceeds(1)
  \/ UsageRecorded(1)
  \/ ContentSucceeds(1)
  \/ ContentRecorded(1)
  \/ PaidSucceeds(1)
  \/ PaidRecorded(1)
  \/ PaidOverageRecorded(1)
  \/ Return(1)
  \/ Tick

SpecReliable == InitReliable /\ [][NextReliable]_vars

\* ---------------------------------------------------------------------------
\* The Redis backend, whose commands can reject (store unreachable). A
\* rejected command leaves the stored value as it was.

\* await this.hasQuota(providerName) rejects: the await is outside the try
\* block, route() rejects with the storage error.
HasQuotaRejects(c) ==
  /\ calls[c].pc = "quota"
  /\ calls' = [calls EXCEPT ![c] =
       [@ EXCEPT !.pc = "done", !.key = NoKey, !.storageFailed = TRUE,
                 !.result = Err("storage", "none")]]
  /\ UNCHANGED <<registered, usage, circuitState, now, nRoutes, store, ops, statsCall, explicitCall>>

\* recordUsage(providerName, false) of the loop rejects: the await is inside
\* the try block, so the catch block records a failure of the provider and
\* the loop goes on.
UsageRecordRejects(c) ==
  /\ calls[c].pc = "record"
  /\ LET cur == calls[c]
         p   == Stack(cur.preferGoogle)[cur.idx]
     IN Advance(c, [cur EXCEPT !.storageFailed = TRUE],
                cur.idx + 1, recordFailure(circuitState, p, now))
  /\ UNCHANGED <<registered, usage, now, nRoutes, store, ops, statsCall, explicitCall>>

\* recordUsage of the includeContent case or of the paid fallback rejects
\* (at either increment): nothing catches it, route() rejects with the
\* storage error.
RecordRejects(c) ==
  /\ calls[c].pc \in {"content_record", "paid_record", "paid_record2"}
  /\ calls' = [calls EXCEPT ![c] =
       [@ EXCEPT !.pc = "done", !.key = NoKey, !.storageFailed = TRUE,
                 !.result = Err("storage", "none")]]
  /\ UNCHANGED <<registered, usage, circuitState, now, nRoutes, store, ops, statsCall, explicitCall>>

InitRedis ==
  /\ registered \in {ps \in SUBSET Providers : Cardinality(ps) <= MaxRegistered}
  /\ usage = EmptyMap
  /\ circuitState = EmptyMap
  /\ now = 0
  /\ calls = [c \in Calls |-> IdleCall]
  /\ nRoutes = 0
  /\ store = createStorage(TRUE)
  /\ ops = [o \in OpIds |-> IdleOp]
  /\ statsCall = IdleStats
  /\ explicitCall = IdleExplicit

\* route() calls made one after the other over a Redis storage.
NextRedis ==
  \/ RouteStep(1)
  \/ HasQuotaRejects(1)
  \/ UsageRecordRejects(1)
  \/ RecordRejects(1)
  \/ Tick

SpecRedis == InitRedis /\ [][NextRedis]_vars

\* ---------------------------------------------------------------------------
\* Concurrent route() calls of one process: the tasks interleave at their
\* awaits. The clock stands still, and MaxInFlight calls are made in all
\* (nRoutes starts that far below MaxRoutes).

\* Over a storage whose increment is one atomic command (Redis INCR).
InitConcurrent ==
  /\ registered \in {ps \in SUBSET Providers : Cardinality(ps) <= MaxRegistered}
  /\ usage = EmptyMap
  /\ circuitState = EmptyMap
  /\ now = 0
  /\ calls = [c \in Calls |-> IdleCall]
  /\ nRoutes = MaxRoutes - MaxInFlight
  /\ store = createStorage(TRUE)
  /\ ops = [o \in OpIds |-> IdleOp]
  /\ statsCall = IdleStats
  /\ explicitCall = IdleExplicit

NextConcurrent == \E c \in Calls : RouteStep(c)

SpecConcurrent == InitConcurrent /\ [][NextConcurrent]_vars

\* Over the file storage: FileStorage.increment loads the document, adds one
\* to the key in the loaded copy and writes the copy back, with awaits
\* between the read and the write.

\* the position of a task whose increment has loaded the document
SavePc(pc) ==
  CASE pc = "record"         -> "record_save"
    [] pc = "content_record" -> "content_save"
    [] pc = "paid_record"    -> "paid_save"
    [] pc = "paid_record2"   -> "paid_save2"

\* FileStorage.increment: await this.load() completes.
FileLoaded(c) ==
  /\ calls[c].pc \in {"record", "content_record", "paid_record", "paid_record2"}
  /\ calls' = [calls EXCEPT ![c] =
       [@ EXCEPT !.pc = SavePc(calls[c].pc), !.doc = usage]]
  /\ UNCHANGED <<registered, usage, circuitState, now, nRoutes, store, ops, statsCall, explicitCall>>

\* FileStorage.increment of the loop's recordUsage: the loaded copy is
\* written back with the key raised; recordSuccess, return.
UsageSaved(c) ==
  /\ calls[c].pc = "record_save"
  /\ LET cur == calls[c]
         p   == Stack(cur.preferGoogle)[cur.idx]
     IN /\ usage' = StorageIncrement(cur.doc, cur.key)
        /\ circuitState' = recordSuccess(circuitState, p)
        /\ calls' = [calls EXCEPT ![c] =
             [cur EXCEPT !.pc = "done", !.key = NoKey, !.doc = EmptyMap,
                         !.checked = NoKey, !.result = Ok(p, FALSE)]]
  /\ UNCHANGED <<registered, now, nRoutes, store, ops, statsCall, explicitCall>>

\* FileStorage.increment of the includeContent case: written back, return.
ContentSaved(c) ==
  /\ calls[c].pc = "content_save"
  /\ usage' = StorageIncrement(calls[c].doc, calls[c].key)
  /\ calls' = [calls EXCEPT ![c] =
       [@ EXCEPT !.pc = "done", !.key = NoKey, !.doc = EmptyMap,
                 !.result = Ok("jina_search", FALSE)]]
  /\ UNCHANGED <<registered, circuitState, now, nRoutes, store, ops, statsCall, explicitCall>>

\* FileStorage.increment of the paid fallback's own key: written back, the
\* increment of `${provider}:paid` starts.
PaidSaved(c) ==
  /\ calls[c].pc = "paid_save"
  /\ usage' = StorageIncrement(calls[c].doc, calls[c].key)
  /\ calls' = [calls EXCEPT ![c] =
       [@ EXCEPT !.pc = "paid_record2", !.doc = EmptyMap,
                 !.key = PaidKey(paidProvider(calls[c].preferGoogle))]]
  /\ UNCHANGED <<registered, circuitState, now, nRoutes, store, ops, statsCall, explicitCall>>

\* FileStorage.increment of `${provider}:paid`: written back, return.
PaidOverageSaved(c) ==
  /\ calls[c].pc = "paid_save2"
  /\ usage' = StorageIncrement(calls[c].doc, calls[c].key)
  /\ calls' = [calls EXCEPT ![c] =
       [@ EXCEPT !.pc = "done", !.key = NoKey, !.doc = EmptyMap,
                 !.result = Ok(paidProvider(calls[c].preferGoogle), TRUE)]]
  /\ UNCHANGED <<registered, circuitState, now, nRoutes, store, ops, statsCall, explicitCall>>

\* The steps of route() task c over the file storage.
FileRouteStep(c) ==
  \/ \E preferGoogle \in BOOLEAN, includeContent \in BOOLEAN :
       Route(c, preferGoogle, includeContent)
  \/ HasQuotaReturns(c)
  \/ SearchSucceeds(c)
  \/ SearchFails(c)
  \/ ContentSucceeds(c)
  \/ ContentFails(c)
  \/ PaidSucceeds(c)
  \/ PaidFails(c)
  \/ FileLoaded(c)
  \/ UsageSaved(c)
  \/ ContentSaved(c)
  \/ PaidSaved(c)
  \/ PaidOverageSaved(c)
  \/ Return(c)

InitFileConcurrent ==
  /\ registered \in {ps \in SUBSET Providers : Cardinality(ps) <= MaxRegistered}
  /\ usage = EmptyMap
  /\ circuitState = EmptyMap
  /\ now = 0
  /\ calls = [c \in Calls |-> IdleCall]
  /\ nRoutes = MaxRoutes - MaxInFlight
  /\ store = createStorage(FALSE)
  /\ ops = [o \in OpIds |-> IdleOp]
  /\ statsCall = IdleStats
  /\ explicitCall = IdleExplicit

NextFileConcurrent == \E c \in Calls : FileRouteStep(c)

SpecFileConcurrent == InitFileConcurrent /\ [][NextFileConcurrent]_vars
\* ---------------------------------------------------------------------------
\* The storage object on its own: get, increment and getAll called on it,
\* OpIds in the order of their numbers. For a RedisStorage usage is the
\* store's key space, for a FileStorage the document of usage.json.

\* the keys the operations are called with
StoreKeys == {getStorageKey("brave", 0), getStorageKey("exa", 0)}

KEY_PREFIX == "omnisearch:"

\* `omnisearch:${key}`
RedisKey(key) == <<KEY_PREFIX>> \o key

\* a getAll that returns the keys as the store names them
ShortKeyUnstripped(rkey) == rkey

\* key.replace('omnisearch:', ''): the first occurrence is removed
ShortKey(rkey) ==
  LET at == {i \in 1..Len(rkey) : rkey[i] = KEY_PREFIX}
  IN IF at = {} THEN rkey
     ELSE LET i == CHOOSE j \in at : \A m \in at : j <= m
          IN SubSeq(rkey, 1, i - 1) \o SubSeq(rkey, i + 1, Len(rkey))

\* ensureConnected that starts a connection attempt of its own
ensureConnectedUnshared(st) ==
  IF st.connected THEN st
  ELSE [st EXCEPT !.connectionPromise = "pending", !.connects = @ + 1]

\* ensureConnected up to its await: the first caller creates the shared
\* connection promise, which calls client.connect().
ensureConnected(st) ==
  IF st.connected THEN st
  ELSE IF st.connectionPromise = "null"
  THEN [st EXCEPT !.connectionPromise = "pending", !.connects = @ + 1]
  ELSE st

\* the position of a Redis operation once its command has been sent
CommandPc(op) == IF op = "getAll" THEN "keys" ELSE "cmd"

\* FileStorage.load: {} when the file is missing or invalid
load(st, u) == IF st.corrupt THEN EmptyMap ELSE u

\* get(key), increment(key) or getAll() is called, up to its first await.
CallOp(o, op, key) ==
  /\ ops[o].pc = "idle"
  /\ \A q \in OpIds : q < o => ops[q].pc # "idle"
  /\ LET cur == [IdleOp EXCEPT !.op = op, !.key = key]
     IN IF store.backend = "file"
        THEN /\ ops' = [ops EXCEPT ![o] = [cur EXCEPT !.pc = "load"]]
             /\ store' = store
        ELSE /\ store' = ensureConnected(store)
             /\ ops' = [ops EXCEPT ![o] =
                  IF store.connected
                  THEN [cur EXCEPT !.pc = CommandPc(op)]
                  ELSE [cur EXCEPT !.pc = "connect", !.waited = TRUE]]
  /\ UNCHANGED <<registered, usage, circuitState, now, calls, nRoutes, statsCall, explicitCall>>

\* client.connect() resolves: connected = true, the shared promise is
\* fulfilled.
ConnectResolves ==
  /\ store.connectionPromise = "pending"
  /\ store' = [store EXCEPT !.connected = TRUE, !.connectionPromise = "fulfilled"]
  /\ UNCHANGED <<registered, usage, circuitState, now, calls, nRoutes, ops, statsCall, explicitCall>>

\* client.connect() rejects: the shared promise is rejected and stays.
ConnectRejects ==
  /\ store.connectionPromise = "pending"
  /\ store' = [store EXCEPT !.connectionPromise = "rejected"]
  /\ UNCHANGED <<registered, usage, circuitState, now, calls, nRoutes, ops, statsCall, explicitCall>>

\* await this.connectionPromise completes for operation o: on fulfilment its
\* command is sent, on rejection the operation rejects.
EnsureConnectedSettles(o) ==
  /\ ops[o].pc = "connect"
  /\ store.connectionPromise \in {"fulfilled", "rejected"}
  /\ ops' = [ops EXCEPT ![o].pc =
       IF store.connectionPromise = "fulfilled" THEN CommandPc(ops[o].op)
       ELSE "failed"]
  /\ UNCHANGED <<registered, usage, circuitState, now, calls, nRoutes, store, statsCall, explicitCall>>

\* client.get replies: value ? parseInt(value, 10) : 0
RedisGetReplies(o) ==
  /\ ops[o].pc = "cmd" /\ ops[o].op = "get"
  /\ ops' = [ops EXCEPT ![o] =
       [@ EXCEPT !.pc = "done",
                 !.ret = StorageGet(usage, RedisKey(ops[o].key))]]
  /\ UNCHANGED <<registered, usage, circuitState, now, calls, nRoutes, store, statsCall, explicitCall>>

\* client.incr replies: the store has raised the key and returns its value.
RedisIncrReplies(o) ==
  /\ ops[o].pc = "cmd" /\ ops[o].op = "increment"
  /\ usage' = StorageIncrement(usage, RedisKey(ops[o].key))
  /\ ops' = [ops EXCEPT ![o] =
       [@ EXCEPT !.pc = "done", !.ret = usage'[RedisKey(ops[o].key)]]]
  /\ UNCHANGED <<registered, circuitState, now, calls, nRoutes, store, statsCall, explicitCall>>

\* client.keys('omnisearch:*') replies: the loop over the keys starts, or
\* getAll returns {} when there is none.
RedisKeysReplies(o) ==
  /\ ops[o].pc = "keys"
  /\ ops' = [ops EXCEPT ![o] =
       [@ EXCEPT !.pc = IF DOMAIN usage = {} THEN "done" ELSE "scan",
                 !.todo = DOMAIN usage, !.doc = EmptyMap]]
  /\ UNCHANGED <<registered, usage, circuitState, now, calls, nRoutes, store, statsCall, explicitCall>>

\* client.get(key) of getAll's loop replies: the value is stored under the
\* short key; after the last key getAll returns.
RedisScanReplies(o) ==
  /\ ops[o].pc = "scan"
  /\ \E k \in ops[o].todo :
       ops' = [ops EXCEPT ![o] =
         [@ EXCEPT !.pc = IF ops[o].todo = {k} THEN "done" ELSE "scan",
                   !.todo = @ \ {k},
                   !.doc = [s \in DOMAIN ops[o].doc \cup {ShortKey(k)} |->
                              IF s = ShortKey(k) THEN StorageGet(usage, k)
                              ELSE ops[o].doc[s]]]]
  /\ UNCHANGED <<registered, usage, circuitState, now, calls, nRoutes, store, statsCall, explicitCall>>

\* FileStorage.get: load() completes, data[key] ?? 0 is returned.
FileGetLoaded(o) ==
  /\ ops[o].pc = "load" /\ ops[o].op = "get"
  /\ ops' = [ops EXCEPT ![o] =
       [@ EXCEPT !.pc = "done",
                 !.ret = StorageGet(load(store, usage), ops[o].key)]]
  /\ UNCHANGED <<registered, usage, circuitState, now, calls, nRoutes, store, statsCall, explicitCall>>

\* FileStorage.getAll: load() completes, the document is returned.
FileGetAllLoaded(o) ==
  /\ ops[o].pc = "load" /\ ops[o].op = "getAll"
  /\ ops' = [ops EXCEPT ![o] =
       [@ EXCEPT !.pc = "done", !.doc = load(store, usage)]]
  /\ UNCHANGED <<registered, usage, circuitState, now, calls, nRoutes, store, statsCall, explicitCall>>

\* FileStorage.increment: load() completes, save() starts.
FileIncrLoaded(o) ==
  /\ ops[o].pc = "load" /\ ops[o].op = "increment"
  /\ ops' = [ops EXCEPT ![o] =
       [@ EXCEPT !.pc = "save", !.doc = load(store, usage)]]
  /\ UNCHANGED <<registered, usage, circuitState, now, calls, nRoutes, store, statsCall, explicitCall>>

\* FileStorage.increment: save() has written the changed copy, data[key] is
\* returned.
FileIncrSaved(o) ==
  /\ ops[o].pc = "save"
  /\ usage' = StorageIncrement(ops[o].doc, ops[o].key)
  /\ store' = [store EXCEPT !.corrupt = FALSE]
  /\ ops' = [ops EXCEPT ![o] =
       [@ EXCEPT !.pc = "done", !.doc = EmptyMap,
                 !.ret = usage'[ops[o].key]]]
  /\ UNCHANGED <<registered, circuitState, now, calls, nRoutes, statsCall, explicitCall>>

\* The steps of storage operation o after its call.
OpStep(o) ==
  \/ EnsureConnectedSettles(o)
  \/ RedisGetReplies(o)
  \/ RedisIncrReplies(o)
  \/ RedisKeysReplies(o)
  \/ RedisScanReplies(o)
  \/ FileGetLoaded(o)
  \/ FileGetAllLoaded(o)
  \/ FileIncrLoaded(o)
  \/ FileIncrSaved(o)

\* A fresh storage: a Redis store with no key, or a file that is missing or
\* holds no valid JSON.
InitStorage ==
  /\ registered = {}
  /\ usage = EmptyMap
  /\ circuitState = EmptyMap
  /\ now = 0
  /\ calls = [c \in Calls |-> IdleCall]
  /\ nRoutes = 0
  /\ store \in {createStorage(TRUE), createStorage(FALSE),
                [createStorage(FALSE) EXCEPT !.corrupt = TRUE]}
  /\ ops = [o \in OpIds |-> IdleOp]
  /\ statsCall = IdleStats
  /\ explicitCall = IdleExplicit

\* Operations called at any time: they overlap.
NextStorage ==
  \/ \E o \in OpIds, op \in {"get", "increment", "getAll"}, key \in StoreKeys :
       CallOp(o, op, key)
  \/ ConnectResolves
  \/ ConnectRejects
  \/ \E o \in OpIds : OpStep(o)

SpecStorage == InitStorage /\ [][NextStorage]_vars

\* every operation called so far has returned or rejected
Settled == \A o \in OpIds : ops[o].pc \in {"idle", "done", "failed"}

\* Operations called one after the other.
NextStorageSequential ==
  \/ \E o \in OpIds, op \in {"get", "increment", "getAll"}, key \in StoreKeys :
       Settled /\ CallOp(o, op, key)
  \/ ConnectResolves
  \/ ConnectRejects
  \/ \E o \in OpIds : OpStep(o)

SpecStorageSequential == InitStorage /\ [][NextStorageSequential]_vars

\* ---------------------------------------------------------------------------
\* RedisStorage.close() among operations called one after the other.

\* close() is called, up to its first await: await this.client.quit() when
\* connected, return at once otherwise.
CallClose(o) ==
  /\ store.backend = "redis"
  /\ Settled
  /\ ops[o].pc = "idle"
  /\ \A q \in OpIds : q < o => ops[q].pc # "idle"
  /\ ops' = [ops EXCEPT ![o] =
       [IdleOp EXCEPT !.op = "close",
                      !.pc = IF store.connected THEN "quit" ELSE "done"]]
  /\ UNCHANGED <<registered, usage, circuitState, now, calls, nRoutes, store, statsCall, explicitCall>>

\* client.quit() resolves: connected = false, connectionPromise = null.
QuitResolves(o) ==
  /\ ops[o].pc = "quit"
  /\ store' = [store EXCEPT !.connected = FALSE, !.connectionPromise = "null"]
  /\ ops' = [ops EXCEPT ![o].pc = "done"]
  /\ UNCHANGED <<registered, usage, circuitState, now, calls, nRoutes, statsCall, explicitCall>>

\* client.quit() rejects: close() rejects, the fields stay as they are.
QuitRejects(o) ==
  /\ ops[o].pc = "quit"
  /\ ops' = [ops EXCEPT ![o].pc = "failed"]
  /\ UNCHANGED <<registered, usage, circuitState, now, calls, nRoutes, store, statsCall, explicitCall>>

NextStorageClose ==
  \/ NextStorageSequential
  \/ \E o \in OpIds : CallClose(o)
  \/ \E o \in OpIds : QuitResolves(o)
  \/ \E o \in OpIds : QuitRejects(o)

SpecStorageClose == InitStorage /\ [][NextStorageClose]_vars
\* ---------------------------------------------------------------------------
\* ---------------------------------------------------------------------------
\* Concurrent route() calls under fair scheduling: a task that has been
\* called takes its next step in the end (each provider.search and each
\* storage command settles, and the event loop resumes every task whose
\* await has settled).
Proceed(c) == calls[c].pc # "idle" /\ RouteStep(c)

SpecFair ==
  /\ InitConcurrent
  /\ [][NextConcurrent]_vars
  /\ \A c \in Calls : WF_vars(Proceed(c))

\* Overlapping route() calls over time: MaxRoutes calls are made, up to
\* MaxInFlight of them at once, while the clock advances; one provider has
\* a valid API key.
InitOverlap ==
  /\ registered \in {ps \in SUBSET Providers : Cardinality(ps) = 1}
  /\ usage = EmptyMap
  /\ circuitState = EmptyMap
  /\ now = 0
  /\ calls = [c \in Calls |-> IdleCall]
  /\ nRoutes = 0
  /\ store = createStorage(TRUE)
  /\ ops = [o \in OpIds |-> IdleOp]
  /\ statsCall = IdleStats
  /\ explicitCall = IdleExplicit

NextOverlap ==
  \/ \E c \in Calls : RouteStep(c)
  \/ Tick

SpecOverlap == InitOverlap /\ [][NextOverlap]_vars

\* ---------------------------------------------------------------------------
\* Reporting: getUsageStats() and recordExplicitUsage().

\* the providers without a free tier
PaidApis == {"perplexity"}

\* their entries of PROVIDER_LIMITS: type paid, a cost per query (in
\* thousandths of a dollar)
PAID_API_LIMITS ==
  [perplexity |-> [limit |-> 0, type |-> "paid", cost_per_query |-> 5]]

\* PROVIDER_LIMITS with all its entries
AllLimits ==
  [p \in Providers \cup PaidApis |->
     IF p \in Providers THEN PROVIDER_LIMITS[p] ELSE PAID_API_LIMITS[p]]

\* new Date(t).toISOString()
ToISOString(t) == <<"ISO", t>>

\* getHealthStatus(provider)
getHealthStatus(circ, p, t) ==
  IF p \notin DOMAIN circ THEN [status |-> "healthy", failures |-> 0]
  ELSE IF circ[p].cooldownUntil > t
  THEN [status |-> "down", failures |-> circ[p].failures,
        cooldownUntil |-> ToISOString(circ[p].cooldownUntil)]
  ELSE IF circ[p].failures > 0
  THEN [status |-> "degraded", failures |-> circ[p].failures]
  ELSE [status |-> "healthy", failures |-> 0]

\* limit - used with no floor
RemainingSigned(limit, used) == limit - used

\* Math.max(0, limit - used)
Remaining(limit, used) == IF limit - used > 0 THEN limit - used ELSE 0

\* The BudgetStats getUsageStats builds from the document allUsage, the
\* circuit map and the clock.
BudgetStats(allUsage, circ, t) ==
  LET ofType(ty) == {p \in DOMAIN AllLimits : AllLimits[p].type = ty}
      free       == {p \in DOMAIN AllLimits : AllLimits[p].type # "paid"}
      entry(p, key) ==
        [used      |-> StorageGet(allUsage, key),
         limit     |-> AllLimits[p].limit,
         remaining |-> Remaining(AllLimits[p].limit, StorageGet(allUsage, key))]
  IN [monthly  |-> [p \in ofType("monthly") |-> entry(p, <<p, MonthOf(t)>>)],
      lifetime |-> [p \in ofType("lifetime") |-> entry(p, <<p, "lifetime">>)],
      paidApis |-> [p \in ofType("paid") |->
                      [used          |-> StorageGet(allUsage, <<p, "paid">>),
                       costPerQuery  |-> AllLimits[p].cost_per_query,
                       estimatedCost |-> StorageGet(allUsage, <<p, "paid">>)
                                           * AllLimits[p].cost_per_query]],
      paid     |-> [p \in free |-> StorageGet(allUsage, <<p, "paid">>)],
      health   |-> [p \in free |-> getHealthStatus(circ, p, t)]]

\* getUsageStats() is called: storage.getAll() starts.
GetUsageStats ==
  /\ statsCall.pc = "idle"
  /\ statsCall' = [statsCall EXCEPT !.pc = "getAll"]
  /\ UNCHANGED <<registered, usage, circuitState, now, calls, nRoutes, store,
                 ops, explicitCall>>

\* getUsageStats that runs the circuit check, which purges stale records
StatsReturnsPurging ==
  /\ statsCall.pc = "getAll"
  /\ statsCall' = [pc |-> "done",
                   report |-> BudgetStats(usage, circuitState, now)]
  /\ circuitState' = PurgeStale(circuitState, Providers)
  /\ UNCHANGED <<registered, usage, now, calls, nRoutes, store, ops,
                 explicitCall>>

\* storage.getAll() completes: the report is built and returned.
StatsReturns ==
  /\ statsCall.pc = "getAll"
  /\ statsCall' = [pc |-> "done",
                   report |-> BudgetStats(usage, circuitState, now)]
  /\ UNCHANGED <<registered, usage, circuitState, now, calls, nRoutes, store,
                 ops, explicitCall>>

\* The caller has received the report.
StatsHandedOver ==
  /\ statsCall.pc = "done"
  /\ statsCall' = IdleStats
  /\ UNCHANGED <<registered, usage, circuitState, now, calls, nRoutes, store,
                 ops, explicitCall>>

\* recordExplicitUsage that files a paid-only provider under a lifetime key
explicitKeyNoPaid(provider, isPaidProvider, t) == <<provider, "lifetime">>

\* The key recordExplicitUsage increments for a provider with a limits
\* entry.
explicitKey(provider, isPaidProvider, t) ==
  IF AllLimits[provider].type = "paid" \/ isPaidProvider
  THEN <<provider, "paid">>
  ELSE getStorageKey(provider, t)

\* recordExplicitUsage(provider, isPaidProvider) is called: for a provider
\* of PROVIDER_LIMITS an increment starts, for any other it returns at once.
RecordExplicitUsage(provider, isPaidProvider) ==
  /\ explicitCall.pc = "idle"
  /\ explicitCall.n < MaxExplicit
  /\ explicitCall' =
       IF provider \in DOMAIN AllLimits
       THEN [explicitCall EXCEPT
               !.pc = "incr", !.provider = provider,
               !.isPaidProvider = isPaidProvider,
               !.key = explicitKey(provider, isPaidProvider, now),
               !.n = @ + 1]
       ELSE [explicitCall EXCEPT !.n = @ + 1, !.count[provider] = @ + 1]
  /\ UNCHANGED <<registered, usage, circuitState, now, calls, nRoutes, store,
                 ops, statsCall>>

\* a recordExplicitUsage that also resets the provider's circuit, as a
\* success of the loop does
ExplicitRecordedResetting ==
  /\ explicitCall.pc = "incr"
  /\ usage' = StorageIncrement(usage, explicitCall.key)
  /\ circuitState' = recordSuccess(circuitState, explicitCall.provider)
  /\ explicitCall' = [explicitCall EXCEPT
                        !.pc = "idle", !.provider = "none",
                        !.isPaidProvider = FALSE,
                        !.key = <<"none", "none">>,
                        !.count[explicitCall.provider] = @ + 1]
  /\ UNCHANGED <<registered, now, calls, nRoutes, store, ops, statsCall>>

\* The increment of recordExplicitUsage completes: return.
ExplicitRecorded ==
  /\ explicitCall.pc = "incr"
  /\ usage' = StorageIncrement(usage, explicitCall.key)
  /\ explicitCall' = [explicitCall EXCEPT
                        !.pc = "idle", !.provider = "none",
                        !.isPaidProvider = FALSE,
                        !.key = <<"none", "none">>,
                        !.count[explicitCall.provider] = @ + 1]
  /\ UNCHANGED <<registered, circuitState, now, calls, nRoutes, store, ops,
                 statsCall>>

InitStats ==
  /\ registered \in {ps \in SUBSET Providers : Cardinality(ps) <= MaxRegistered}
  /\ usage = EmptyMap
  /\ circuitState = EmptyMap
  /\ now = 0
  /\ calls = [c \in Calls |-> IdleCall]
  /\ nRoutes = 0
  /\ store = createStorage(FALSE)
  /\ ops = [o \in OpIds |-> IdleOp]
  /\ statsCall = IdleStats
  /\ explicitCall = IdleExplicit

\* getUsageStats() called at any moment of route() calls made one after the
\* other (a report is handed over at once).
NextStats ==
  \/ statsCall.pc # "done" /\ RouteStep(1)
  \/ statsCall.pc # "done" /\ Tick
  \/ GetUsageStats
  \/ StatsReturns
  \/ StatsHandedOver

SpecStats == InitStats /\ [][NextStats]_vars

\* recordExplicitUsage() and getUsageStats() called at any moment, no
\* route() call made.
NextExplicit ==
  \/ \E provider \in ExplicitInputs, isPaidProvider \in BOOLEAN :
       statsCall.pc # "done" /\ RecordExplicitUsage(provider, isPaidProvider)
  \/ statsCall.pc # "done" /\ ExplicitRecorded
  \/ statsCall.pc # "done" /\ Tick
  \/ GetUsageStats
  \/ StatsReturns
  \/ StatsHandedOver

SpecExplicit == InitStats /\ [][NextExplicit]_vars

\* ---------------------------------------------------------------------------
\* Explicit-provider calls between route() calls: recordExplicitUsage(p) is
\* called, with one argument as its callers do, at any moment of route()
\* calls made one after the other on a router with one registered provider,
\* while the clock advances.
InitAccounting ==
  /\ registered \in {ps \in SUBSET Providers : Cardinality(ps) = 1}
  /\ usage = EmptyMap
  /\ circuitState = EmptyMap
  /\ now = 0
  /\ calls = [c \in Calls |-> IdleCall]
  /\ nRoutes = 0
  /\ store = createStorage(FALSE)
  /\ ops = [o \in OpIds |-> IdleOp]
  /\ statsCall = IdleStats
  /\ explicitCall = IdleExplicit

NextAccounting ==
  \/ RouteStep(1)
  \/ Tick
  \/ \E provider \in ExplicitInputs : RecordExplicitUsage(provider, FALSE)
  \/ ExplicitRecorded

SpecAccounting == InitAccounting /\ [][NextAccounting]_vars

\* ===========================================================================
\* Properties
\* ===========================================================================
\* Task c has made a provider.search call in this step: its pending
\* invocation is new.
Invokes(c) ==
  /\ calls'[c].pc \in {"search", "paid_search", "content_search"}
  /\ calls'[c].pc # calls[c].pc

\* the invocation task c is waiting for, in the next state
Pending(c) == calls'[c].invoked[Len(calls'[c].invoked)]

\* the position of provider p in a stack
Pos(stack, p) == CHOOSE k \in 1..Len(stack) : stack[k] = p

\* the keys a provider's usage is stored under
KeysOf(p) == {getStorageKey(p, 0), getStorageKey(p, MonthRolloverMs), PaidKey(p)}

\* C1 (as stated): whenever route() invokes a provider's search, the provider
\* is registered, its circuit is not open at that moment, and its free-tier
\* counter is below its limit unless it is invoked as the paid fallback; at
\* all three invocation sites.
C1_AttemptOnlyIfEligible ==
  [][\A c \in Calls : Invokes(c) =>
       LET p == Pending(c).provider
       IN /\ p \in registered
          /\ ~(p \in DOMAIN circuitState' /\ circuitState'[p].cooldownUntil > now')
          /\ \/ StorageGet(usage', getStorageKey(p, now')) < PROVIDER_LIMITS[p].limit
             \/ Pending(c).site = "paid"]_vars

\* C1 (amended): every provider route() invokes is registered; a provider
\* invoked by the stack loop was found by that loop iteration with its
\* circuit not open and its counter below its limit, and with route() calls
\* made one at a time both still hold at the moment of the invocation (the
\* counter read under the key the quota check used). The paid fallback and
\* the includeContent case consult neither circuit nor quota.
C1_StackAttemptOnlyIfEligible ==
  [][\A c \in Calls : Invokes(c) =>
       LET p == Pending(c).provider
       IN /\ p \in registered
          /\ Pending(c).site = "stack" =>
               /\ ~(p \in DOMAIN circuitState' /\ circuitState'[p].cooldownUntil > now')
               /\ StorageGet(usage', calls[c].key) < PROVIDER_LIMITS[p].limit
               /\ calls[c].key \in KeysOf(p) \ {PaidKey(p)}]_vars

\* C1 witness: the loop has invoked a provider after skipping one whose
\* circuit is open.
C1_Witness ==
  \E c \in Calls : \E p \in registered :
    /\ calls[c].pc = "search"
    /\ isCircuitOpen(circuitState, p, now)
    /\ Pos(Stack(calls[c].preferGoogle), p) < calls[c].idx
\* The providers of a stack that are registered and whose counter in the
\* document u, under the key of clock reading t, is below the limit.
FreeIn(stack, u, t) ==
  {k \in 1..Len(stack) :
     /\ stack[k] \in registered
     /\ StorageGet(u, getStorageKey(stack[k], t)) < PROVIDER_LIMITS[stack[k]].limit}

\* the first of them in stack order
FirstFree(stack, u, t) ==
  stack[CHOOSE k \in FreeIn(stack, u, t) : \A m \in FreeIn(stack, u, t) : k <= m]

\* the document with these counts
Doc(brave, tavily, exa) ==
  [k \in {<<"brave", "2026-02">>} \cup
         (IF tavily > 0 THEN {<<"tavily", "2026-02">>} ELSE {}) \cup
         (IF exa > 0 THEN {<<"exa", "lifetime">>} ELSE {}) |->
     IF k[1] = "brave" THEN brave ELSE IF k[1] = "tavily" THEN tavily ELSE exa]

\* C2: with providers that always succeed, a route() call (preferGoogle
\* false, no includeContent) made within one month is served, on the free
\* tier, by the first registered provider in stack order whose counter is
\* below its limit, and that counter grows by one. With every provider
\* registered (limits brave 2, tavily 1, exa 1) and no prior usage: the first
\* and second call are served by brave (counter 1, then 2), the third by
\* tavily (counter 1), the fourth by exa.
C2_FirstWithQuotaServes ==
  \A c \in Calls :
    LET cur == calls[c]
    IN (/\ cur.pc = "done"
        /\ ~cur.preferGoogle
        /\ ~cur.includeContent
        /\ MonthOf(cur.startedAt) = MonthOf(now)) =>
         /\ FreeIn(defaultStack, cur.startUsage, now) # {} =>
              LET p == FirstFree(defaultStack, cur.startUsage, now)
              IN /\ cur.result = [kind |-> "ok", provider |-> p, usedPaidTier |-> FALSE]
                 /\ usage = [k \in DOMAIN cur.startUsage \cup {getStorageKey(p, now)} |->
                              IF k = getStorageKey(p, now)
                              THEN StorageGet(cur.startUsage, k) + 1
                              ELSE cur.startUsage[k]]
         /\ (registered = Providers /\ now = 0) =>
              /\ cur.startUsage = EmptyMap =>
                   cur.result.provider = "brave" /\ usage = Doc(1, 0, 0)
              /\ cur.startUsage = Doc(1, 0, 0) =>
                   cur.result.provider = "brave" /\ usage = Doc(2, 0, 0)
              /\ cur.startUsage = Doc(2, 0, 0) =>
                   cur.result.provider = "tavily" /\ usage = Doc(2, 1, 0)
              /\ cur.startUsage = Doc(2, 1, 0) =>
                   cur.result.provider = "exa" /\ usage = Doc(2, 1, 1)

\* C2 witness: the fourth call of the scenario has been served by exa.
C2_Witness ==
  \E c \in Calls :
    /\ calls[c].pc = "done"
    /\ registered = Providers
    /\ nRoutes = 4
    /\ calls[c].startUsage = Doc(2, 1, 0)
    /\ calls[c].result = [kind |-> "ok", provider |-> "exa", usedPaidTier |-> FALSE]
    /\ usage = Doc(2, 1, 1)

\* the document u with the counter of key k raised by n
Raised(u, k, n) ==
  [x \in DOMAIN u \cup {k} |-> IF x = k THEN StorageGet(u, k) + n ELSE u[x]]

\* C3: a route() call that returns a result has raised by exactly one a
\* free-tier counter of the provider named in the result, has raised that
\* provider's ':paid' counter by exactly one if and only if usedPaidTier is
\* true, and has left every other counter as it was.
C3_OneCounterPerSuccess ==
  \A c \in Calls :
    LET cur == calls[c]
        p   == cur.result.provider
    IN (cur.pc = "done" /\ cur.result.kind = "ok") =>
         \E k \in KeysOf(p) \ {PaidKey(p)} :
           usage = IF cur.result.usedPaidTier
                   THEN Raised(Raised(cur.startUsage, k, 1), PaidKey(p), 1)
                   ELSE Raised(cur.startUsage, k, 1)

\* C3 witness: a call served on the paid tier, after a provider of the stack
\* failed, has returned.
C3_Witness ==
  \E c \in Calls :
    /\ calls[c].pc = "done"
    /\ calls[c].result.kind = "ok"
    /\ calls[c].result.usedPaidTier
    /\ Len(calls[c].invoked) >= 2
    /\ StorageGet(usage, PaidKey(calls[c].result.provider)) = 1
\* the failure count recorded for p (0 without a record)
Failures(circ, p) == IF p \in DOMAIN circ THEN circ[p].failures ELSE 0

\* The step is the catch block of task c's loop: its invocation has failed.
LoopFailure(c) ==
  calls[c].pc = "search" /\ calls'[c].pc \notin {"search", "record"}

\* the provider task c's loop is at
LoopProvider(c) == Stack(calls[c].preferGoogle)[calls[c].idx]

\* the stack indices the loop of task c passes over in this step
PassedOver(c) ==
  IF calls'[c].pc = "idle" \/ calls'[c].includeContent THEN {}
  ELSE (calls[c].idx + 1)..(calls'[c].idx - 1)

\* C4: a failure recorded by the loop raises the provider's failure count by
\* one; the circuit is open right after the failure exactly when the count
\* has reached 3, and then cooldownUntil is the time of that failure plus 5
\* minutes. A record of 1 or 2 failures is never open, and the loop never
\* passes over a registered provider with fewer than 3 recorded failures
\* without reading its quota.
C4_OpensAtThirdFailure ==
  /\ [](\A p \in DOMAIN circuitState :
          circuitState[p].failures < 3 =>
            /\ circuitState[p].failures \in {1, 2}
            /\ ~(circuitState[p].cooldownUntil > now))
  /\ [][\A c \in Calls :
          /\ LoopFailure(c) =>
               LET p == LoopProvider(c)
                   n == Failures(circuitState', p)
               IN /\ n = Failures(circuitState, p) + 1
                  /\ circuitState'[p].lastFailure = now'
                  /\ (circuitState'[p].cooldownUntil > now') <=> (n = 3)
                  /\ n = 3 => circuitState'[p].cooldownUntil = now' + 5 * 60 * 1000
          /\ \A k \in PassedOver(c) :
               LET q == Stack(calls'[c].preferGoogle)[k]
               IN q \in registered => Failures(circuitState, q) >= 3]_vars

\* C4 witness: a provider's third failure, later than its first, has opened
\* its circuit while another provider has one recorded failure.
C4_Witness ==
  \E p, q \in DOMAIN circuitState :
    /\ circuitState[p].failures = 3
    /\ circuitState[p].lastFailure > 0
    /\ circuitState[p].cooldownUntil = circuitState[p].lastFailure + cooldownMs
    /\ circuitState[p].cooldownUntil > now
    /\ circuitState[q].failures = 1

\* the providers task c has invoked at a site
InvokedAt(c, site) ==
  {calls[c].invoked[i].provider :
     i \in {i \in 1..Len(calls[c].invoked) : calls[c].invoked[i].site = site}}

\* C5 (as stated): a route() call started while provider p's circuit is open
\* (before its cooldownUntil) never invokes p, and leaves p's usage counters
\* and failure record as they were.
C5_OpenCircuitNeverInvoked ==
  \A c \in Calls : \A p \in registered :
    LET cur == calls[c]
    IN (/\ cur.pc # "idle"
        /\ p \in DOMAIN cur.startCircuit
        /\ cur.startCircuit[p].cooldownUntil > cur.startedAt) =>
         /\ \A i \in 1..Len(cur.invoked) : cur.invoked[i].provider # p
         /\ p \in DOMAIN circuitState /\ circuitState[p] = cur.startCircuit[p]
         /\ \A k \in KeysOf(p) : StorageGet(usage, k) = StorageGet(cur.startUsage, k)

\* C5 (amended), for route() calls made one at a time: while p's cooldown is
\* running, a route() call without includeContent whose loop has come to p
\* has skipped it: the loop has not invoked p, p's failure record is
\* unchanged, a result from the free tier names another provider, and p's
\* usage counters are unchanged unless p was invoked as the designated paid
\* fallback.
C5_OpenCircuitSkippedByLoop ==
  \A c \in Calls : \A p \in registered :
    LET cur == calls[c]
    IN (/\ cur.pc # "idle"
        /\ ~cur.includeContent
        /\ p \in DOMAIN cur.startCircuit
        /\ cur.startCircuit[p].cooldownUntil > now
        /\ cur.idx > Pos(Stack(cur.preferGoogle), p)) =>
         /\ p \notin InvokedAt(c, "stack")
         /\ p \in DOMAIN circuitState /\ circuitState[p] = cur.startCircuit[p]
         /\ (cur.pc = "done" /\ cur.result.kind = "ok" /\ ~cur.result.usedPaidTier)
              => cur.result.provider # p
         /\ p \notin InvokedAt(c, "paid") =>
              \A k \in KeysOf(p) : StorageGet(usage, k) = StorageGet(cur.startUsage, k)

\* C5 witness: a call has been served by the stack member after p, whose
\* circuit is open although its counter is below its limit.
C5_Witness ==
  \E c \in Calls : \E p \in registered :
    LET cur == calls[c]
    IN /\ cur.pc = "done"
       /\ cur.result.kind = "ok"
       /\ ~cur.result.usedPaidTier
       /\ isCircuitOpen(cur.startCircuit, p, now)
       /\ StorageGet(usage, getStorageKey(p, now)) < PROVIDER_LIMITS[p].limit
       /\ Pos(Stack(cur.preferGoogle), p)
            < Pos(Stack(cur.preferGoogle), cur.result.provider)
       /\ p \notin InvokedAt(c, "stack")

\* C6: when route() returns a result, the provider that served it (in the
\* loop, as the paid fallback or in the includeContent case) has no circuit
\* record.
C6_SuccessClearsCircuit ==
  \A c \in Calls :
    (calls[c].pc = "done" /\ calls[c].result.kind = "ok") =>
      calls[c].result.provider \notin DOMAIN circuitState

\* C7: when a provider invoked by the loop fails, the call goes on: the
\* provider's failure count grows by exactly one, no usage counter changes,
\* and the call is next at a later candidate's quota read, at the paid
\* fallback, or rejected for want of any provider, never with the failed
\* provider's error. A call in which some invocation succeeded returns that
\* provider's result.
C7_LoopFailureNotSurfaced ==
  /\ [](\A c \in Calls :
          LET cur == calls[c]
          IN cur.pc = "done" =>
               \A i \in 1..Len(cur.invoked) :
                 cur.invoked[i].outcome = "ok" =>
                   /\ cur.result.kind = "ok"
                   /\ cur.result.provider = cur.invoked[i].provider)
  /\ [][\A c \in Calls :
          LoopFailure(c) =>
            LET p  == LoopProvider(c)
                nx == calls'[c]
            IN /\ Failures(circuitState', p) = Failures(circuitState, p) + 1
               /\ usage' = usage
               /\ \/ /\ nx.pc = "quota"
                     /\ nx.idx > calls[c].idx
                     /\ nx.idx <= Len(Stack(nx.preferGoogle))
                  \/ /\ nx.pc = "paid_search"
                     /\ nx.invoked[Len(nx.invoked)].site = "paid"
                  \/ /\ nx.pc = "done"
                     /\ nx.result.kind = "exhausted"]_vars

\* C7 witness: a call whose first candidate failed has returned the result of
\* a later candidate of the stack.
C7_Witness ==
  \E c \in Calls :
    LET cur == calls[c]
    IN /\ cur.pc = "done"
       /\ Len(cur.invoked) = 2
       /\ cur.invoked[1].outcome = "fail"
       /\ cur.invoked[2].site = "stack"
       /\ cur.result = [kind |-> "ok", provider |-> cur.invoked[2].provider,
                        usedPaidTier |-> FALSE]
       /\ Failures(circuitState, cur.invoked[1].provider)
            = Failures(cur.startCircuit, cur.invoked[1].provider) + 1
\* C8: a route() call without includeContent that is rejected carries the
\* exhaustion error, never a provider's own error; in particular a call
\* whose loop yielded no result and whose paid-fallback invocation failed is
\* rejected with the exhaustion error.
C8_OnlyExhaustionPropagates ==
  \A c \in Calls :
    LET cur == calls[c]
    IN (cur.pc = "done" /\ ~cur.includeContent /\ cur.result.kind # "ok") =>
         /\ cur.result.kind = "exhausted"
         /\ (Len(cur.invoked) > 0 /\ cur.invoked[Len(cur.invoked)].site = "paid")
              => cur.result.provider = "none"

\* C9: a route() call with includeContent invokes jina_search and nothing
\* else, whatever preferGoogle, the quotas and the circuits are: if
\* jina_search is registered it is the one provider invoked; if it is not,
\* the call is rejected with the configuration error at once, no provider
\* invoked, no usage counter and no circuit record changed.
C9_ContentOnlyJina ==
  \A c \in Calls :
    LET cur == calls[c]
    IN (cur.pc # "idle" /\ cur.includeContent) =>
         /\ \A i \in 1..Len(cur.invoked) : cur.invoked[i].provider = "jina_search"
         /\ "jina_search" \in registered =>
              /\ Len(cur.invoked) = 1
              /\ cur.pc \in {"content_search", "content_record", "done"}
              /\ cur.pc = "done" =>
                   cur.result \in
                     {[kind |-> "ok", provider |-> "jina_search", usedPaidTier |-> FALSE],
                      [kind |-> "provider", provider |-> "jina_search",
                       usedPaidTier |-> FALSE]}
         /\ "jina_search" \notin registered =>
              /\ cur.pc = "done"
              /\ cur.result.kind = "config"
              /\ cur.invoked = <<>>
              /\ usage = cur.startUsage
              /\ circuitState = cur.startCircuit

\* C9 witness: with preferGoogle set, jina_search out of quota and its
\* circuit degraded, an includeContent call has been served by jina_search.
C9_Witness ==
  \E c \in Calls :
    LET cur == calls[c]
    IN /\ cur.pc = "done"
       /\ cur.includeContent
       /\ cur.preferGoogle
       /\ cur.result.kind = "ok"
       /\ "jina_search" \in DOMAIN cur.startCircuit
       /\ StorageGet(cur.startUsage, <<"jina_search", "lifetime">>)
            >= PROVIDER_LIMITS["jina_search"].limit
       /\ registered # {"jina_search"}

\* C10: in a route() call without includeContent, the paid fallback is
\* invoked once, last, after every loop invocation failed, and it is
\* jina_search without preferGoogle and serper with it, whatever its counter;
\* a call in which no loop invocation succeeded has invoked it if it is
\* registered and is rejected for want of any provider if it is not. When the
\* fallback succeeds the call returns its name with usedPaidTier true, its
\* free-tier counter and its ':paid' counter each raised by one.
C10_PaidFallback ==
  \A c \in Calls :
    LET cur  == calls[c]
        n    == Len(cur.invoked)
        paid == IF cur.preferGoogle THEN "serper" ELSE "jina_search"
    IN (cur.pc # "idle" /\ ~cur.includeContent) =>
         /\ \A i \in 1..n :
              cur.invoked[i].site = "paid" =>
                /\ i = n
                /\ cur.invoked[i].provider = paid
                /\ \A j \in 1..(i - 1) :
                     cur.invoked[j].site = "stack" /\ cur.invoked[j].outcome = "fail"
         /\ (cur.pc = "done" /\ ~(cur.result.kind = "ok" /\ ~cur.result.usedPaidTier)) =>
              IF paid \in registered
              THEN n > 0 /\ cur.invoked[n].site = "paid"
              ELSE cur.result.kind = "exhausted"
         /\ (cur.pc = "done" /\ n > 0 /\ cur.invoked[n] =
               [provider |-> paid, site |-> "paid", outcome |-> "ok"]) =>
              /\ cur.result = [kind |-> "ok", provider |-> paid, usedPaidTier |-> TRUE]
              /\ \E k \in KeysOf(paid) \ {PaidKey(paid)} :
                   usage = Raised(Raised(cur.startUsage, k, 1), <<paid, "paid">>, 1)

\* C10 witness: with preferGoogle set and serper's counter at its limit, a
\* call whose loop invocation failed has been served by serper on the paid
\* tier.
C10_Witness ==
  \E c \in Calls :
    LET cur == calls[c]
    IN /\ cur.pc = "done"
       /\ cur.preferGoogle
       /\ cur.result = [kind |-> "ok", provider |-> "serper", usedPaidTier |-> TRUE]
       /\ StorageGet(cur.startUsage, <<"serper", "lifetime">>)
            >= PROVIDER_LIMITS["serper"].limit
       /\ Len(cur.invoked) = 2
       /\ StorageGet(usage, <<"serper", "paid">>)
            = StorageGet(cur.startUsage, <<"serper", "paid">>) + 1

\* the providers of a stack that are registered
RegisteredIn(stack) == {stack[k] : k \in 1..Len(stack)} \cap registered

\* C11: whenever route() has returned usedPaidTier = true, every registered
\* provider of the chosen stack, the fallback provider included, had its
\* free-tier counter at or above its limit when the call considered it (the
\* counter under the key of the month the call started in, or of the month
\* it returned in).
C11_PaidOnlyWhenAllExhausted ==
  \A c \in Calls :
    (calls[c].pc = "done" /\ calls[c].result.usedPaidTier) =>
      \A p \in RegisteredIn(Stack(calls[c].preferGoogle)) :
        \/ StorageGet(calls[c].startUsage, getStorageKey(p, calls[c].startedAt))
             >= PROVIDER_LIMITS[p].limit
        \/ StorageGet(calls[c].startUsage, getStorageKey(p, now))
             >= PROVIDER_LIMITS[p].limit

\* Task c's await this.hasQuota(...) completes in this step.
QuotaCheckReturns(c) == calls[c].pc = "quota" /\ calls'[c].pc # "quota"

\* C18: hasQuota(p) is true exactly when the counter stored under p's
\* current quota key is strictly below p's limit: when the quota read of the
\* stack loop returns a value below the limit, p is invoked; when it returns
\* the limit or more, p is not invoked and the loop moves past it.
C18_QuotaBoundary ==
  [][\A c \in Calls :
       QuotaCheckReturns(c) =>
         LET p    == LoopProvider(c)
             used == StorageGet(usage, calls[c].key)
         IN /\ used < PROVIDER_LIMITS[p].limit =>
                 /\ calls'[c].pc = "search"
                 /\ Pending(c) = Invocation(p, "stack")
                 /\ calls'[c].idx = calls[c].idx
            /\ used >= PROVIDER_LIMITS[p].limit =>
                 /\ calls'[c].pc # "search"
                 /\ calls'[c].idx > calls[c].idx
                 /\ \A k \in 1..Len(calls'[c].invoked) :
                      k > Len(calls[c].invoked) =>
                        calls'[c].invoked[k].site # "stack"]_vars

\* brave was invoked with its counter at limit - 1 and served, and is now
\* passed over with its counter at its limit: tavily is invoked instead.
C18_Witness ==
  \E c \in Calls :
    /\ calls[c].pc = "search"
    /\ ~calls[c].preferGoogle
    /\ LoopProvider(c) = "tavily"
    /\ "brave" \in registered
    /\ "brave" \notin DOMAIN circuitState
    /\ MonthOf(calls[c].startedAt) = MonthOf(now)
    /\ StorageGet(usage, <<"brave", MonthOf(now)>>) = PROVIDER_LIMITS["brave"].limit

\* the clock readings of a behaviour
ClockReadings == {k * TickMs : k \in 0..MaxTicks}

\* C19, key derivation: the quota key of a monthly provider is the same at
\* two instants of one month and different in different months; the key of
\* a lifetime provider does not depend on the instant.
C19_KeyPerMonth ==
  \A p \in Providers : \A t1, t2 \in ClockReadings :
    IF PROVIDER_LIMITS[p].type = "monthly"
    THEN (getStorageKey(p, t1) = getStorageKey(p, t2)) <=> (MonthOf(t1) = MonthOf(t2))
    ELSE getStorageKey(p, t1) = getStorageKey(p, t2)

\* C19, consequence: the month change itself writes nothing to storage; a
\* counter of the previous month is never lowered or removed afterwards; a
\* monthly provider that reached its limit in the previous month is invoked
\* by the first quota check made for it in the new month; a lifetime
\* provider at its limit is passed over in either month.
C19_MonthRollover ==
  [][/\ MonthOf(now') # MonthOf(now) => usage' = usage
     /\ \A k \in DOMAIN usage : k \in DOMAIN usage' /\ usage'[k] >= usage[k]
     /\ \A c \in Calls :
          QuotaCheckReturns(c) =>
            LET p == LoopProvider(c)
            IN /\ ( /\ PROVIDER_LIMITS[p].type = "monthly"
                    /\ StorageGet(usage, <<p, "2026-02">>) >= PROVIDER_LIMITS[p].limit
                    /\ calls[c].key = <<p, "2026-03">>
                    /\ StorageGet(usage, <<p, "2026-03">>) = 0 )
                  => /\ calls'[c].pc = "search"
                     /\ Pending(c) = Invocation(p, "stack")
                     /\ usage' = usage
               /\ ( /\ PROVIDER_LIMITS[p].type = "lifetime"
                    /\ StorageGet(usage, <<p, "lifetime">>) >= PROVIDER_LIMITS[p].limit )
                  => calls'[c].pc # "search"]_vars

\* C19: monthly keys are stable within a month and rotate with it, so that a
\* monthly provider at its limit has quota again after the month change with
\* no reset and the old counter intact, and a lifetime provider has not.
C19_MonthlyKeyRotates == []C19_KeyPerMonth /\ C19_MonthRollover

\* brave reached its limit in February and exa its lifetime limit; in March
\* brave has served again, its February counter and exa's counter as they
\* were.
C19_Witness ==
  \E c \in Calls :
    /\ calls[c].pc = "done"
    /\ calls[c].result = Ok("brave", FALSE)
    /\ MonthOf(calls[c].startedAt) = "2026-03"
    /\ StorageGet(usage, <<"brave", "2026-02">>) = PROVIDER_LIMITS["brave"].limit
    /\ StorageGet(usage, <<"brave", "2026-03">>) = 1
    /\ StorageGet(usage, <<"exa", "lifetime">>) = PROVIDER_LIMITS["exa"].limit

\* C12: with the Redis backend, a storage failure raised by get or increment
\* during route() propagates out of route() unmodified: at the step in which
\* the storage call rejects, route() rejects with the storage error, no
\* failure is recorded in the circuit map and no further provider is
\* invoked.
C12_StorageFailurePropagates ==
  [][\A c \in Calls :
       (~calls[c].storageFailed /\ calls'[c].storageFailed) =>
         /\ calls'[c].pc = "done"
         /\ calls'[c].result = Err("storage", "none")
         /\ circuitState' = circuitState
         /\ calls'[c].invoked = calls[c].invoked]_vars

\* Task d has provider p of the stack loop in flight: invoked, its usage
\* not recorded yet.
InFlightOn(d, p) ==
  /\ calls[d].pc \in {"search", "record"}
  /\ LoopProvider(d) = p

\* C20: concurrent route() calls are not mutually excluded around the quota
\* check: a call whose quota read for p returns a value below the limit
\* invokes p even while another call has p in flight, and each call that
\* records its usage raises the counter by one whatever its value, so that
\* two calls that both read limit - 1 both invoke p and leave the counter
\* above the limit.
C20_NoMutualExclusion ==
  [][\A c \in Calls :
       /\ \A d \in Calls \ {c} :
            ( /\ QuotaCheckReturns(c)
              /\ InFlightOn(d, LoopProvider(c))
              /\ StorageGet(usage, calls[c].key)
                   < PROVIDER_LIMITS[LoopProvider(c)].limit )
            => /\ calls'[c].pc = "search"
               /\ Pending(c) = Invocation(LoopProvider(c), "stack")
       /\ (calls[c].pc = "record" /\ calls'[c].pc = "done")
            => /\ StorageGet(usage', calls[c].key)
                    = StorageGet(usage, calls[c].key) + 1
               /\ calls'[c].result = Ok(LoopProvider(c), FALSE)]_vars

\* Two calls that started with tavily's counter at limit - 1 have both been
\* served by tavily, and its counter is above its limit.
C20_Witness ==
  \E c, d \in Calls :
    /\ c # d
    /\ calls[c].pc = "done" /\ calls[c].result = Ok("tavily", FALSE)
    /\ calls[d].pc = "done" /\ calls[d].result = Ok("tavily", FALSE)
    /\ StorageGet(calls[c].startUsage, <<"tavily", MonthOf(now)>>)
         = PROVIDER_LIMITS["tavily"].limit - 1
    /\ StorageGet(calls[d].startUsage, <<"tavily", MonthOf(now)>>)
         = PROVIDER_LIMITS["tavily"].limit - 1
    /\ StorageGet(usage, <<"tavily", MonthOf(now)>>)
         = PROVIDER_LIMITS["tavily"].limit + 1

\* C13: every usage counter is never negative and never decreases: in every
\* step each stored key is still stored with a value at least its value
\* before the step.
C13_CountersNeverDecrease ==
  [][\A k \in DOMAIN usage :
       /\ usage[k] >= 0
       /\ k \in DOMAIN usage'
       /\ usage'[k] >= usage[k]]_vars

\* Task c's FileStorage.increment writes the document in this step.
FileWrites(c) ==
  /\ calls[c].pc \in {"record_save", "content_save", "paid_save", "paid_save2"}
  /\ calls'[c].pc # calls[c].pc

\* C14: the file backend is safe within one process: every increment issued
\* by concurrent route() calls takes effect, that is, its write leaves the
\* document as it was with the key raised by one (so the sum of all counters
\* grows by one per increment and no other increment is undone).
C14_FileIncrementsAllTakeEffect ==
  [][\A c \in Calls :
       FileWrites(c) => usage' = StorageIncrement(usage, calls[c].key)]_vars

\* the increment(key) operations that have returned
Incremented(key) ==
  {o \in OpIds : ops[o].op = "increment" /\ ops[o].key = key /\ ops[o].pc = "done"}

\* the number stored for key, under the backend's own name for it
Stored(key) ==
  LET k == IF store.backend = "redis" THEN <<"omnisearch:">> \o key ELSE key
  IN IF k \in DOMAIN usage THEN usage[k] ELSE 0

\* C15: with the Redis backend, however k increment(key) calls on one key
\* interleave, the stored value is raised by exactly k and the k calls
\* return k distinct consecutive values (1..k from a fresh store).
C15_RedisIncrementsRaceFree ==
  store.backend = "redis" =>
    \A key \in StoreKeys :
      /\ {ops[o].ret : o \in Incremented(key)} = 1..Cardinality(Incremented(key))
      /\ Stored(key) = Cardinality(Incremented(key))

\* Two increments of one key that were both waiting for the connection, and
\* so were in progress together, have returned.
C15_Witness ==
  /\ store.backend = "redis"
  /\ \E key \in StoreKeys : \E o1, o2 \in Incremented(key) :
       /\ o1 # o2
       /\ ops[o1].waited /\ ops[o2].waited
       /\ {ops[o1].ret, ops[o2].ret} = {1, 2}

\* C16: the Redis connection is established at most once: client.connect()
\* is called at most one time, every operation that waits for the connection
\* waits for that one attempt, and an operation's command is sent (and
\* answered) only with the connection established.
C16_ConnectAtMostOnce ==
  store.backend = "redis" =>
    /\ store.connects <= 1
    /\ \A o \in OpIds :
         /\ ops[o].pc = "connect" =>
              store.connects = 1 /\ store.connectionPromise # "null"
         /\ ops[o].pc \in {"cmd", "keys", "scan", "done"} =>
              store.connected /\ store.connectionPromise = "fulfilled"

\* A get and an increment that both arrived while the connection was being
\* established have had their commands sent after the one connect call.
C16_Witness ==
  /\ store.backend = "redis"
  /\ store.connects = 1
  /\ \E o1, o2 \in OpIds :
       /\ ops[o1].op = "get" /\ ops[o2].op = "increment"
       /\ ops[o1].waited /\ ops[o2].waited
       /\ ops[o1].pc = "cmd" /\ ops[o2].pc = "cmd"

\* the increment(key) calls among the operations numbered up to n that have
\* returned
IncrementsUpTo(key, n) == {q \in Incremented(key) : q <= n}

\* C17: on a fresh storage, with operations called one after the other,
\* get(key) returns the number of increment(key) calls returned before it
\* (0 on fresh storage) and never fails for a missing key; the n-th
\* increment(key) returns n; and every key holds the number of its own
\* increments, whatever was done to other keys.
C17_SequentialGetAndIncrement ==
  /\ \A o \in OpIds :
       /\ (ops[o].pc = "done" /\ ops[o].op = "increment") =>
            ops[o].ret = Cardinality(IncrementsUpTo(ops[o].key, o))
       /\ (ops[o].pc = "done" /\ ops[o].op = "get") =>
            ops[o].ret = Cardinality(IncrementsUpTo(ops[o].key, o))
       /\ ops[o].pc = "failed" => store.connectionPromise = "rejected"
  /\ Settled => \A key \in StoreKeys :
       Stored(key) = Cardinality(Incremented(key))

\* On a file storage, two increments of brave's key returned 1 and 2, and
\* the get that followed returned 2, exa's key never stored.
C17_Witness ==
  /\ store.backend = "file"
  /\ ops[1].op = "increment" /\ ops[1].key = <<"brave", "2026-02">>
  /\ ops[1].ret = 1
  /\ ops[2].op = "increment" /\ ops[2].key = <<"brave", "2026-02">>
  /\ ops[2].ret = 2
  /\ ops[3].op = "get" /\ ops[3].key = <<"brave", "2026-02">>
  /\ ops[3].pc = "done" /\ ops[3].ret = 2
  /\ <<"exa", "lifetime">> \notin DOMAIN usage

\* C21: exactly one provider serves a successful route() call and the first
\* success wins: an invocation of the call that succeeded is its last one,
\* and a returned result names the provider of that invocation.
C21_FirstSuccessWins ==
  \A c \in Calls :
    LET inv == calls[c].invoked
    IN /\ \A k \in 1..Len(inv) : inv[k].outcome = "ok" => k = Len(inv)
       /\ (calls[c].pc = "done" /\ calls[c].result.kind = "ok") =>
            /\ Len(inv) >= 1
            /\ inv[Len(inv)].outcome = "ok"
            /\ calls[c].result.provider = inv[Len(inv)].provider

\* C24: if Redis is configured but unavailable, usage tracking falls back to
\* file storage: a route() call that met a storage failure still returns a
\* result, and the storage in use is then the file backend.
C24_FallsBackToFile ==
  \A c \in Calls :
    (calls[c].pc = "done" /\ calls[c].storageFailed) =>
      /\ calls[c].result.kind = "ok"
      /\ store.backend = "file"

\* the Google-preferred order of the routing reference
DocumentedGoogleOrder ==
  <<"brave", "tavily", "exa", "serper", "jina_search", "youcom">>

\* the default order of the routing reference
DocumentedDefaultOrder ==
  <<"brave", "tavily", "exa", "jina_search", "serper", "youcom">>

\* C25: candidates are attempted in the documented orders: when the loop of a
\* call invokes a provider, every provider before it in the documented order
\* (default or Google-preferred) that is registered, whose circuit is not
\* open and whose counter is below its limit has been invoked by that call.
C25_DocumentedOrder ==
  [][\A c \in Calls :
       (Invokes(c) /\ Pending(c).site = "stack") =>
         LET order == IF calls'[c].preferGoogle THEN DocumentedGoogleOrder
                      ELSE DocumentedDefaultOrder
             p     == Pending(c).provider
         IN \A k \in 1..(Pos(order, p) - 1) :
              LET q == order[k]
              IN ( /\ q \in registered
                   /\ ~(q \in DOMAIN circuitState' /\ circuitState'[q].cooldownUntil > now')
                   /\ StorageGet(usage', getStorageKey(q, now'))
                        < PROVIDER_LIMITS[q].limit )
                 => \E i \in 1..Len(calls'[c].invoked) :
                      calls'[c].invoked[i].provider = q]_vars

\* A provider invocation of task c fails in this step.
InvocationFails(c) ==
  /\ calls[c].pc \in {"search", "paid_search", "content_search"}
  /\ calls'[c].pc # calls[c].pc
  /\ Len(calls'[c].invoked) >= Len(calls[c].invoked)
  /\ calls'[c].invoked[Len(calls[c].invoked)].outcome = "fail"

\* C29: every failed provider invocation made by route(), in the stack
\* loop, as the paid fallback or in the includeContent case, raises that
\* provider's failure count by one.
C29_EveryFailureRecorded ==
  [][\A c \in Calls :
       InvocationFails(c) =>
         LET p == calls[c].invoked[Len(calls[c].invoked)].provider
         IN Failures(circuitState', p) = Failures(circuitState, p) + 1]_vars

\* C30: within one route() call everything is sequential: only the last
\* invocation can be in flight, and only while the call waits for it; a
\* usage increment is under way only after the last invocation succeeded;
\* and every invocation before the last one has failed.
C30_StrictlySequential ==
  \A c \in Calls :
    LET inv == calls[c].invoked
    IN /\ \A k \in 1..Len(inv) :
            inv[k].outcome = "pending" =>
              /\ k = Len(inv)
              /\ calls[c].pc \in {"search", "paid_search", "content_search"}
       /\ calls[c].pc \in {"record", "content_record", "paid_record", "paid_record2"} =>
            Len(inv) >= 1 /\ inv[Len(inv)].outcome = "ok"
       /\ \A k \in 1..(Len(inv) - 1) : inv[k].outcome = "fail"

\* p's record is stale: the threshold was met and the cooldown has elapsed.
Stale(circ, p, t) ==
  /\ p \in DOMAIN circ
  /\ circ[p].failures >= 3
  /\ circ[p].cooldownUntil <= t

\* Task c's loop has passed the circuit check of a provider in this step and
\* starts its quota read.
QuotaReadStarts(c) == calls'[c].pc = "quota" /\ calls'[c] # calls[c]

\* C26: once an open provider's cooldown has elapsed, the next circuit check
\* for it returns not-open and discards the stale record (a loop that comes
\* to the provider stops at it to read its quota, and the record is gone); a
\* failure of a
\* provider without a record leaves it with failure count 1, no cooldown and
\* a closed circuit; and a circuit is open only with at least three failures
\* on record.
C26_CleanSlateAfterCooldown ==
  /\ [](\A p \in DOMAIN circuitState :
          circuitState[p].cooldownUntil > now => circuitState[p].failures >= 3)
  /\ [][\A c \in Calls :
          /\ \A p \in registered :
               ( /\ Stale(circuitState, p, now)
                 /\ calls[c].idx < Pos(Stack(calls'[c].preferGoogle), p)
                 /\ calls'[c].idx >= Pos(Stack(calls'[c].preferGoogle), p) )
               => /\ p \notin DOMAIN circuitState'
                  /\ QuotaReadStarts(c)
                  /\ Stack(calls'[c].preferGoogle)[calls'[c].idx] = p
          /\ (LoopFailure(c) /\ LoopProvider(c) \notin DOMAIN circuitState) =>
               circuitState'[LoopProvider(c)] =
                 [failures |-> 1, lastFailure |-> now', cooldownUntil |-> 0]]_vars

\* A provider whose circuit had opened has been tried again after the
\* cooldown and has failed once more: its record shows one failure and no
\* cooldown.
C26_Witness ==
  \E c \in Calls : \E p \in registered :
    /\ calls[c].pc # "idle"
    /\ Stale(calls[c].startCircuit, p, calls[c].startedAt)
    /\ \E i \in 1..Len(calls[c].invoked) :
         /\ calls[c].invoked[i] = [provider |-> p, site |-> "stack", outcome |-> "fail"]
    /\ p \in DOMAIN circuitState
    /\ circuitState[p] = [failures |-> 1, lastFailure |-> now, cooldownUntil |-> 0]

\* C28, shape of a record: at least one failure; a cooldown is set exactly
\* when the count is 3 or more, and is then the time of the latest failure
\* plus 5 minutes.
C28_RecordShape ==
  \A p \in DOMAIN circuitState :
    LET r == circuitState[p]
    IN /\ r.failures >= 1
       /\ (r.cooldownUntil # 0) <=> (r.failures >= 3)
       /\ r.failures >= 3 => r.cooldownUntil = r.lastFailure + 5 * 60 * 1000

\* C28, lifecycle: a record appears only in a step in which an invocation of
\* the provider fails in the loop, and disappears only when an invocation of
\* the provider is recorded as a success or when the record is stale.
C28_RecordLifecycle ==
  [][\A p \in Providers :
       /\ (p \notin DOMAIN circuitState /\ p \in DOMAIN circuitState') =>
            \E c \in Calls : LoopFailure(c) /\ LoopProvider(c) = p
       /\ (p \in DOMAIN circuitState /\ p \notin DOMAIN circuitState') =>
            \/ Stale(circuitState, p, now)
            \/ \E c \in Calls :
                 /\ calls[c].pc = "record"
                 /\ calls'[c].pc = "done"
                 /\ calls'[c].result = Ok(p, FALSE)]_vars

\* C28: circuit records follow the lifecycle created on first failure,
\* deleted on success or stale purge, with the stated shape in every state.
C28_CircuitRecordInvariant == []C28_RecordShape /\ C28_RecordLifecycle

\* A provider with two failures on record has served a call and lost its
\* record, while another provider's record remains.
C28_Witness ==
  \E c \in Calls : \E p \in registered :
    /\ calls[c].pc = "done"
    /\ calls[c].result = Ok(p, FALSE)
    /\ p \in DOMAIN calls[c].startCircuit
    /\ calls[c].startCircuit[p].failures = 2
    /\ p \notin DOMAIN circuitState
    /\ DOMAIN circuitState # {}

\* C22: getUsageStats() is read-only: no step of it changes a usage counter
\* or a circuit record, stale records included.
C22_StatsReadOnly ==
  [][statsCall' # statsCall =>
       usage' = usage /\ circuitState' = circuitState]_vars

\* A report has been returned while a stale record exists, and the record
\* is still there.
C22_Witness ==
  /\ statsCall.pc = "done"
  /\ \E p \in DOMAIN circuitState : Stale(circuitState, p, now)
  /\ DOMAIN usage # {}

\* C23: for a paid-only provider recorded k times through
\* recordExplicitUsage, getUsageStats() reports used = k and estimatedCost =
\* k * costPerQuery, and no free-tier, overage or health entry.
C23_PaidOnlyReport ==
  statsCall.pc = "done" =>
    \A p \in PaidApis :
      LET k == explicitCall.count[p]
      IN /\ statsCall.report.paidApis[p].used = k
         /\ statsCall.report.paidApis[p].estimatedCost
              = k * statsCall.report.paidApis[p].costPerQuery
         /\ statsCall.report.paidApis[p].costPerQuery = PAID_API_LIMITS[p].cost_per_query
         /\ p \notin DOMAIN statsCall.report.monthly
         /\ p \notin DOMAIN statsCall.report.lifetime
         /\ p \notin DOMAIN statsCall.report.paid
         /\ p \notin DOMAIN statsCall.report.health

\* perplexity's usage was recorded twice and the report says used 2, cost
\* 10.
C23_Witness ==
  /\ statsCall.pc = "done"
  /\ explicitCall.count["perplexity"] = 2
  /\ statsCall.report.paidApis["perplexity"].used = 2
  /\ statsCall.report.paidApis["perplexity"].estimatedCost = 10

\* C27: the health status reported by getUsageStats() matches the circuit
\* map: healthy exactly without a record, degraded exactly with 1 or 2
\* failures on record, down exactly with 3 or more failures on record and
\* the cooldown running.
C27_HealthMatchesCircuit ==
  statsCall.pc = "done" =>
    \A p \in Providers :
      LET h == statsCall.report.health[p]
      IN /\ (h.status = "healthy") <=> (p \notin DOMAIN circuitState)
         /\ (h.status = "degraded") <=>
              (p \in DOMAIN circuitState /\ circuitState[p].failures \in {1, 2})
         /\ (h.status = "down") <=>
              ( /\ p \in DOMAIN circuitState
                /\ circuitState[p].failures >= 3
                /\ circuitState[p].cooldownUntil > now )

\* the invocations task c has made so far at the given site
SiteInvocations(c, site) ==
  {i \in 1..Len(calls[c].invoked) : calls[c].invoked[i].site = site}

C36_FailedCallLeavesCounters ==
  \A c \in Calls :
    ( /\ calls[c].pc = "done"
      /\ calls[c].result.kind \in {"config", "exhausted", "provider"}
      /\ ~calls[c].storageFailed )
    => usage = calls[c].startUsage

\* A call made after usage was recorded has failed with the paid fallback's
\* error after a failure in the loop: the circuit map has changed, the
\* counters have not.
C36_Witness ==
  \E c \in Calls :
    /\ calls[c].pc = "done"
    /\ calls[c].result.kind = "provider"
    /\ Len(calls[c].invoked) = 2
    /\ calls[c].startUsage # EmptyMap
    /\ circuitState # calls[c].startCircuit
    /\ usage = calls[c].startUsage

\* C37 (as stated): within one stack attempt the key read by the quota
\* check and the key incremented after the provider succeeded are the same.
C37_CheckedKeyIsIncrementedKey ==
  \A c \in Calls :
    calls[c].pc = "record" => calls[c].key = calls[c].checked

\* C37 (amended): the key incremented is the free-tier key of the provider
\* that was checked, derived from the clock when its search resolved; it is
\* the key that was checked for a lifetime provider and whenever the UTC
\* month did not change in between, and the key of the later month, which
\* was not checked, otherwise.
C37_IncrementedKeyOfCurrentMonth ==
  [][\A c \in Calls :
       (calls[c].pc = "search" /\ calls'[c].pc = "record") =>
         LET p == LoopProvider(c)
         IN /\ calls'[c].key = getStorageKey(p, now)
            /\ calls[c].checked \in {getStorageKey(p, t) : t \in ClockReadings}
            /\ calls'[c].checked = calls[c].checked
            /\ PROVIDER_LIMITS[p].type = "lifetime"
                 => calls'[c].key = calls[c].checked
            /\ (\E t \in ClockReadings :
                  /\ calls[c].checked = getStorageKey(p, t)
                  /\ MonthOf(t) = MonthOf(now))
                 => calls'[c].key = calls[c].checked
            /\ calls'[c].key # calls[c].checked
                 => /\ calls[c].checked = <<p, "2026-02">>
                    /\ calls'[c].key = <<p, "2026-03">>]_vars

\* brave's February counter was checked and its March counter is about to
\* be incremented.
C37_Witness ==
  \E c \in Calls :
    /\ calls[c].pc = "record"
    /\ calls[c].checked = <<"brave", "2026-02">>
    /\ calls[c].key = <<"brave", "2026-03">>

\* C38: every route() call terminates, with a result or an error, after at
\* most one invocation per registered provider of its stack and one more
\* (hence at most stack length + 1), whatever the other concurrent calls
\* do.
C38_RouteTerminates ==
  /\ [](\A c \in Calls :
          /\ Len(calls[c].invoked)
               <= Cardinality(RegisteredIn(Stack(calls[c].preferGoogle))) + 1
          /\ Len(calls[c].invoked) <= Len(Stack(calls[c].preferGoogle)) + 1)
  /\ \A c \in Calls :
       (calls[c].pc # "idle") ~>
         (calls[c].pc = "done" /\ calls[c].result.kind # "none")

\* A call has ended after an invocation of each registered provider in the
\* loop and one of the paid fallback, while another call is under way.
C38_Witness ==
  \E c, d \in Calls :
    /\ c # d
    /\ calls[c].pc = "done"
    /\ Cardinality(registered) = MaxRegistered
    /\ Len(calls[c].invoked) = Cardinality(registered) + 1
    /\ calls[d].pc \notin {"idle", "done"}

\* C33 (as stated): under any interleaving of concurrent route() calls a
\* provider's recorded failure count never exceeds the threshold of 3, and
\* the cooldownUntil of an open circuit is not pushed later by further
\* failures.
C33_FailuresCappedAtThreshold ==
  [][\A p \in DOMAIN circuitState' :
       /\ circuitState'[p].failures <= maxFailures
       /\ ( /\ p \in DOMAIN circuitState
            /\ circuitState[p].failures >= maxFailures
            /\ circuitState'[p].failures > circuitState[p].failures )
          => circuitState'[p].cooldownUntil <= circuitState[p].cooldownUntil]_vars

\* C33 (amended): with up to MaxInFlight route() calls in flight a
\* provider's recorded failure count never exceeds the threshold plus
\* MaxInFlight - 1; a failure recorded on an open circuit comes from a call
\* that started before the failure that precedes it, raises the count by
\* one and sets cooldownUntil again, to the time of this failure plus the
\* cooldown.
C33_FailuresBeyondThreshold ==
  [][\A p \in DOMAIN circuitState' :
       /\ circuitState'[p].failures <= maxFailures + MaxInFlight - 1
       /\ ( /\ p \in DOMAIN circuitState
            /\ circuitState[p].failures >= maxFailures
            /\ circuitState'[p] # circuitState[p] )
          => /\ circuitState'[p].failures = circuitState[p].failures + 1
             /\ circuitState'[p].lastFailure = now
             /\ circuitState'[p].cooldownUntil = now + cooldownMs
             /\ \E c \in Calls :
                  /\ calls[c].pc = "search"
                  /\ LoopProvider(c) = p
                  /\ calls'[c].pc # "search"
                  /\ calls[c].startedAt <= circuitState[p].lastFailure]_vars

\* A provider's record has one failure more than the threshold and its
\* cooldown was restarted at a later clock reading than the one it opened
\* at.
C33_Witness ==
  \E p \in DOMAIN circuitState :
    /\ circuitState[p].failures = maxFailures + 1
    /\ circuitState[p].lastFailure > 0
    /\ circuitState[p].cooldownUntil = circuitState[p].lastFailure + cooldownMs
    /\ \E c \in Calls :
         /\ calls[c].startedAt = 0
         /\ Len(calls[c].invoked) >= 1
         /\ calls[c].invoked[1] =
              [provider |-> p, site |-> "stack", outcome |-> "fail"]

\* the providers that are never the designated paid fallback
NotPaidFallback == Providers \ {paidProvider(g) : g \in BOOLEAN}

\* the free-tier keys of provider p
FreeKeys(p) == {getStorageKey(p, t) : t \in ClockReadings}

\* C34: with at most MaxInFlight route() calls in flight over a storage
\* with an atomic increment, no free-tier counter of a provider that is not
\* the designated paid fallback exceeds its limit by more than MaxInFlight
\* - 1; and a call during which no other call changed the provider's
\* counters (as with calls made one at a time) never raises one above the
\* limit.
C34_OvershootBounded ==
  [][\A p \in NotPaidFallback : \A k \in FreeKeys(p) :
       /\ StorageGet(usage', k) <= PROVIDER_LIMITS[p].limit + MaxInFlight - 1
       /\ \A c \in Calls :
            ( /\ calls[c].pc = "record"
              /\ calls[c].key = k
              /\ calls'[c].pc = "done"
              /\ \A j \in FreeKeys(p) :
                   StorageGet(usage, j) = StorageGet(calls[c].startUsage, j) )
            => StorageGet(usage', k) <= PROVIDER_LIMITS[p].limit]_vars

\* tavily's counter is one above its limit after two overlapping calls, and
\* a later call has found it without quota.
C34_Witness ==
  /\ StorageGet(usage, <<"tavily", MonthOf(now)>>)
       = PROVIDER_LIMITS["tavily"].limit + MaxInFlight - 1
  /\ \E c \in Calls :
       /\ calls[c].pc = "done"
       /\ calls[c].result = Err("exhausted", "none")
       /\ StorageGet(calls[c].startUsage, <<"tavily", MonthOf(now)>>)
            = PROVIDER_LIMITS["tavily"].limit + MaxInFlight - 1

\* recordExplicitUsage is called with provider p in this step: either its
\* increment is now pending, or it has returned at once.
ExplicitCalledWith(p) ==
  /\ explicitCall.pc = "idle"
  /\ explicitCall'.n = explicitCall.n + 1
  /\ \/ explicitCall'.pc = "incr" /\ explicitCall'.provider = p
     \/ explicitCall'.pc = "idle"
          /\ explicitCall'.count[p] = explicitCall.count[p] + 1

\* C31: recordExplicitUsage(p) increments exactly p's current free-tier key
\* by 1 for a free-tier provider and exactly `p:paid` by 1 for a paid-only
\* provider, changes nothing for a name with no quota policy, and in every
\* case makes no quota check (the increment is made whatever the counter's
\* value) and leaves the circuit map unchanged.
C31_ExplicitUsageAccounting ==
  [][/\ \A p \in ExplicitInputs :
          (ExplicitCalledWith(p) /\ ~explicitCall'.isPaidProvider)
          => /\ usage' = usage /\ circuitState' = circuitState
             /\ p \in Providers
                  => /\ explicitCall'.pc = "incr"
                     /\ explicitCall'.key = getStorageKey(p, now)
             /\ p \in PaidApis
                  => /\ explicitCall'.pc = "incr"
                     /\ explicitCall'.key = PaidKey(p)
             /\ p \notin Providers \cup PaidApis
                  => explicitCall'.pc = "idle"
     /\ (explicitCall.pc = "incr" /\ explicitCall'.pc = "idle")
          => /\ circuitState' = circuitState
             /\ StorageGet(usage', explicitCall.key)
                  = StorageGet(usage, explicitCall.key) + 1
             /\ \A k \in (DOMAIN usage \cup DOMAIN usage') \ {explicitCall.key} :
                  StorageGet(usage', k) = StorageGet(usage, k)]_vars

\* exa's circuit is open after three failed route() calls, and two explicit
\* calls have raised exa's counter above its limit with the circuit record
\* as it was.
C31_Witness ==
  /\ "exa" \in DOMAIN circuitState
  /\ circuitState["exa"].failures = maxFailures
  /\ explicitCall.pc = "idle"
  /\ explicitCall.count["exa"] = 2
  /\ StorageGet(usage, <<"exa", "lifetime">>) = 2
  /\ PROVIDER_LIMITS["exa"].limit < 2

\* C32: for every monthly or lifetime provider getUsageStats() reports used
\* = the counter under the provider's current key, limit = its policy
\* limit and remaining = max(0, limit - used): remaining is never negative,
\* also when used has overshot the limit, and it is positive exactly when
\* the router's quota check for the provider would pass.
C32_UsedLimitRemaining ==
  statsCall.pc = "done" =>
    /\ DOMAIN statsCall.report.monthly
         = {p \in Providers : PROVIDER_LIMITS[p].type = "monthly"}
    /\ DOMAIN statsCall.report.lifetime
         = {p \in Providers : PROVIDER_LIMITS[p].type = "lifetime"}
    /\ \A p \in Providers :
         LET r    == IF PROVIDER_LIMITS[p].type = "monthly"
                     THEN statsCall.report.monthly[p]
                     ELSE statsCall.report.lifetime[p]
             used == StorageGet(usage, IF PROVIDER_LIMITS[p].type = "monthly"
                                       THEN <<p, MonthOf(now)>>
                                       ELSE <<p, "lifetime">>)
         IN /\ r.used = used
            /\ r.limit = PROVIDER_LIMITS[p].limit
            /\ r.remaining = (IF r.limit > r.used THEN r.limit - r.used ELSE 0)
            /\ r.remaining >= 0
            /\ (r.remaining > 0) <=> (used < PROVIDER_LIMITS[p].limit)

\* The report shows exa's counter above its limit with nothing remaining.
C32_Witness ==
  /\ statsCall.pc = "done"
  /\ statsCall.report.lifetime["exa"].used > PROVIDER_LIMITS["exa"].limit
  /\ statsCall.report.lifetime["exa"].remaining = 0

\* the number of increment(key) calls that returned before operation o
CountBefore(o, key) == Cardinality({q \in Incremented(key) : q < o})

\* What a plain counter map returns to operation o, from the calls made
\* before it alone: the count for get, the new count for increment, the
\* map of the keys incremented so far for getAll.
AbstractResult(o) ==
  CASE ops[o].op = "get"       -> CountBefore(o, ops[o].key)
    [] ops[o].op = "increment" -> CountBefore(o, ops[o].key) + 1
    [] ops[o].op = "getAll"    ->
         [k \in {j \in StoreKeys : CountBefore(o, j) > 0} |-> CountBefore(o, k)]

\* what operation o returned
Observed(o) == IF ops[o].op = "getAll" THEN ops[o].doc ELSE ops[o].ret

\* C39: for a single sequential client starting from empty storage, the
\* file backend and the Redis backend return the same value at every step
\* of every sequence of get, increment and getAll calls (getAll with the
\* prefix stripped): each returns what a plain counter map returns.
C39_BackendsEquivalent ==
  \A o \in OpIds :
    ops[o].pc = "done" =>
      /\ store.backend = "file" => Observed(o) = AbstractResult(o)
      /\ store.backend = "redis" => Observed(o) = AbstractResult(o)

\* On the Redis backend, getAll after an increment of each of two keys has
\* returned both under their short names.
C39_Witness ==
  /\ store.backend = "redis"
  /\ ops[1].op = "increment" /\ ops[2].op = "increment"
  /\ ops[1].key # ops[2].key
  /\ ops[3].op = "getAll" /\ ops[3].pc = "done"
  /\ DOMAIN ops[3].doc = StoreKeys
  /\ \A k \in StoreKeys : ops[3].doc[k] = 1

\* C40: once the first connection attempt of the Redis backend has failed,
\* the rejected attempt stays: no step changes the storage object (connect
\* is not invoked again, connected stays false), every get, increment and
\* getAll waits for the rejected promise and fails without sending a
\* command, and close() returns at once without effect.
C40_FailedConnectRemembered ==
  [][store.connectionPromise = "rejected" =>
       /\ store' = store
       /\ usage' = usage
       /\ \A o \in OpIds :
            ops'[o] # ops[o] =>
              IF ops'[o].op = "close" THEN ops'[o].pc = "done"
              ELSE \/ ops[o].pc = "idle" /\ ops'[o].pc = "connect"
                   \/ ops[o].pc = "connect" /\ ops'[o].pc = "failed"]_vars

\* After one connection attempt that failed, a get has failed, a close()
\* has returned and a later increment has failed too, with connect invoked
\* once.
C40_Witness ==
  /\ store.connectionPromise = "rejected"
  /\ store.connects = 1
  /\ ops[1].op = "get" /\ ops[1].pc = "failed"
  /\ ops[2].op = "close" /\ ops[2].pc = "done"
  /\ ops[3].op = "increment" /\ ops[3].pc = "failed"
====
